---- MODULE Spec2Model ----
(***************************************************************************)
(* Layout core of beautiful-mermaid: the C4 layout (src/src/c4/layout.ts)  *)
(* and the ArchiMate layout (src/src/archimate/renderer.ts), with the text *)
(* metrics of src/src/styles.ts they size boxes with.                      *)
(*                                                                         *)
(* Lengths are integers in units of 1/400 px (Px(1) = 400), so that every  *)
(* product with a width ratio (0.52, 0.55, 0.58) and every halving the     *)
(* code performs is exact.                                                 *)
(*                                                                         *)
(* The layered-layout engine the code calls (dagre, an external library)   *)
(* is the environment: the graph the code hands over is modelled exactly   *)
(* (graphlib's setNode / setEdge on a directed non-multigraph), the        *)
(* engine's answer is any layered drawing of that graph.                   *)
(***************************************************************************)
EXTENDS Integers, Sequences, FiniteSets, TLC

VARIABLES
    fn,       \* which function is running: "c4", "archimate" or "snap"
    pc,       \* position in the call: "call", "dagre", "extract", "done", "failed"
    diagram,  \* the input diagram (C4Diagram or ArchiMateDiagram)
    g,        \* the dagre graph the call has built
    lay,      \* what dagre.layout wrote back: centres, edge points, size
    res,      \* the returned positioned diagram
    err,      \* the message of the error thrown, "" when none
    pin,      \* input of a path post-processing call
    pout      \* its result

vars == <<fn, pc, diagram, g, lay, res, err, pin, pout>>

(***************************************************************************)
(* Generic helpers                                                         *)
(***************************************************************************)
Px(n) == n * 400

Max(a, b) == IF a >= b THEN a ELSE b

Min(a, b) == IF a <= b THEN a ELSE b

SetMax(S) == CHOOSE m \in S : \A o \in S : o <= m

SetMin(S) == CHOOSE m \in S : \A o \in S : m <= o

Range(s) == {s[i] : i \in 1..Len(s)}

None == [none |-> TRUE]

(***************************************************************************)
(* Text metrics: src/src/styles.ts                                         *)
(* A text is a sequence of UTF-16 code units.                              *)
(***************************************************************************)
\* char.charCodeAt(0) of a one-code-point string: the code point itself in the
\* Basic Multilingual Plane, the high surrogate of its UTF-16 pair above it
charCodeAt0(char) ==
    IF char >= 65536 THEN 55296 + ((char - 65536) \div 1024) ELSE char

\* a text is the sequence of its code points, as `for (const char of text)`
\* iterates it
isFullWidth(char) ==
  LET code == charCodeAt0(char) IN
    \/ (code >= 4352 /\ code <= 4607)      \* 0x1100..0x11ff Hangul Jamo
    \/ (code >= 12288 /\ code <= 12351)    \* 0x3000..0x303f CJK Punctuation
    \/ (code >= 12352 /\ code <= 12447)    \* 0x3040..0x309f Hiragana
    \/ (code >= 12448 /\ code <= 12543)    \* 0x30a0..0x30ff Katakana
    \/ (code >= 12592 /\ code <= 12687)    \* 0x3130..0x318f Hangul Compat Jamo
    \/ (code >= 19968 /\ code <= 40959)    \* 0x4e00..0x9fff CJK Unified
    \/ (code >= 44032 /\ code <= 55215)    \* 0xac00..0xd7af Hangul Syllables
    \/ (code >= 65280 /\ code <= 65519)    \* 0xff00..0xffef Fullwidth Forms

RECURSIVE getDisplayWidth(_)
getDisplayWidth(text) ==
    IF text = <<>> THEN 0
    ELSE (IF isFullWidth(Head(text)) THEN 2 ELSE 1) + getDisplayWidth(Tail(text))

\* widthRatio with the lightest weights the widest
widthRatio_lighterWider(fontWeight) ==
    IF fontWeight >= 600 THEN 52 ELSE IF fontWeight >= 500 THEN 55 ELSE 58

\* the width ratio in hundredths
widthRatio(fontWeight) ==
    IF fontWeight >= 600 THEN 58 ELSE IF fontWeight >= 500 THEN 55 ELSE 52

estimateTextWidth(text, fontSize, fontWeight) ==
    (getDisplayWidth(text) * fontSize * widthRatio(fontWeight) * Px(1)) \div 100

\* ascii/display-width.ts: ch.codePointAt(0) is the code point itself
isWideChar(ch) ==
    \/ (ch >= 4352 /\ ch <= 4447)          \* 0x1100..0x115f Hangul Jamo
    \/ (ch >= 11904 /\ ch <= 12350)        \* 0x2e80..0x303e CJK Radicals, Kangxi
    \/ (ch >= 12352 /\ ch <= 13247)        \* 0x3040..0x33bf Hiragana .. CJK Compat
    \/ (ch >= 13312 /\ ch <= 19903)        \* 0x3400..0x4dbf CJK Extension A
    \/ (ch >= 19968 /\ ch <= 40959)        \* 0x4e00..0x9fff CJK Unified
    \/ (ch >= 43360 /\ ch <= 43388)        \* 0xa960..0xa97c Hangul Jamo Extended-A
    \/ (ch >= 44032 /\ ch <= 55203)        \* 0xac00..0xd7a3 Hangul Syllables
    \/ (ch >= 63744 /\ ch <= 64255)        \* 0xf900..0xfaff CJK Compat Ideographs
    \/ (ch >= 65040 /\ ch <= 65049)        \* 0xfe10..0xfe19 Vertical Forms
    \/ (ch >= 65072 /\ ch <= 65135)        \* 0xfe30..0xfe6f CJK Compat Forms
    \/ (ch >= 65280 /\ ch <= 65376)        \* 0xff00..0xff60 Fullwidth Forms
    \/ (ch >= 65504 /\ ch <= 65510)        \* 0xffe0..0xffe6 Fullwidth Signs
    \/ (ch >= 126976 /\ ch <= 129791)      \* 0x1f000..0x1faff Emoji
    \/ (ch >= 131072 /\ ch <= 195103)      \* 0x20000..0x2fa1f CJK Extension B-F

RECURSIVE displayWidth(_)
displayWidth(text) ==
    IF text = <<>> THEN 0
    ELSE (IF isWideChar(Head(text)) THEN 2 ELSE 1) + displayWidth(Tail(text))

FONT_SIZES_nodeLabel == 13

FONT_SIZES_edgeLabel == 11

FONT_WEIGHTS_nodeLabel == 500

FONT_WEIGHTS_edgeLabel == 400

(***************************************************************************)
(* graphlib: a directed graph that is not a multigraph.                    *)
(* nodes and edges keep insertion order; an edge is the pair <<v, w>>.     *)
(***************************************************************************)
NoLabel == [has |-> FALSE, width |-> 0, height |-> 0, layer |-> ""]

NodeLabel(w, h, layer) == [has |-> TRUE, width |-> w, height |-> h, layer |-> layer]

\* new dagre.graphlib.Graph({ directed: true }) followed by g.setGraph(opts)
newGraph(opts) ==
    [nodes |-> <<>>, label |-> <<>>, edges |-> <<>>, elabel |-> <<>>, graph |-> opts]

HasNode(gr, v) == v \in Range(gr.nodes)

HasEdge(gr, v, w) == <<v, w>> \in Range(gr.edges)

\* g.setNode(v, value): a new node is appended, an known node's label replaced
setNode(gr, v, value) ==
    IF HasNode(gr, v)
    THEN [gr EXCEPT !.label = (v :> value) @@ gr.label]
    ELSE [gr EXCEPT !.nodes = Append(gr.nodes, v),
                    !.label = (v :> value) @@ gr.label]

\* g.setNode(v) without a value, as setEdge calls it: a known node is left
\* alone, a new node gets the default label, which is undefined
ensureNode(gr, v) ==
    IF HasNode(gr, v) THEN gr
    ELSE [gr EXCEPT !.nodes = Append(gr.nodes, v),
                    !.label = (v :> NoLabel) @@ gr.label]

\* g.setEdge(v, w, value): on a non-multigraph the edge v -> w exists at most
\* once; setting it again replaces its label and keeps its place
setEdge(gr, v, w, value) ==
    IF HasEdge(gr, v, w)
    THEN [gr EXCEPT !.elabel = (<<v, w>> :> value) @@ gr.elabel]
    ELSE LET g2 == ensureNode(ensureNode(gr, v), w)
         IN  [g2 EXCEPT !.edges = Append(g2.edges, <<v, w>>),
                        !.elabel = (<<v, w>> :> value) @@ g2.elabel]

(***************************************************************************)
(* C4 layout: src/src/c4/layout.ts                                         *)
(***************************************************************************)
C4_padding == 40

C4_boxPadX == 16

C4_boxPadY == 12

C4_personWidth == 160

C4_personHeight == 180

C4_minBoxWidth == 160

C4_minBoxHeight == 80

C4_lineHeight == 18

C4_boundaryPadding == 30

C4_boundaryHeaderHeight == 28

C4_nodeSpacing == 60

C4_layerSpacing == 80

C4_descFontSize == 11

C4_descFontWeight == 400

C4_techFontSize == 10

C4_techFontWeight == 400

\* calculateElementSize padding the widest line on one side only
calculateElementSize_onePad(element) ==
    IF element.kind = "Person"
    THEN [width |-> Px(C4_personWidth), height |-> Px(C4_personHeight)]
    ELSE
      LET labelW == estimateTextWidth(element.label, FONT_SIZES_nodeLabel,
                                      FONT_WEIGHTS_nodeLabel)
          techW  == estimateTextWidth(<<91>> \o element.technology \o <<93>>,
                                      C4_techFontSize, C4_techFontWeight)
          descW  == estimateTextWidth(element.description,
                                      C4_descFontSize, C4_descFontWeight)
          w1 == IF element.technology # <<>> THEN Max(labelW, techW) ELSE labelW
          maxTextW == IF element.description # <<>> THEN Max(w1, descW) ELSE w1
          textLines == 1 + (IF element.technology # <<>> THEN 1 ELSE 0)
                         + (IF element.description # <<>> THEN 1 ELSE 0)
      IN  [width  |-> Max(Px(C4_minBoxWidth), maxTextW + Px(C4_boxPadX)),
           height |-> Max(Px(C4_minBoxHeight),
                          textLines * Px(C4_lineHeight) + Px(C4_boxPadY) * 2)]

\* An absent optional text (technology, description) is the empty text: the
\* code tests these fields for truthiness only, and "" is falsy as undefined is.
calculateElementSize(element) ==
    IF element.kind = "Person"
    THEN [width |-> Px(C4_personWidth), height |-> Px(C4_personHeight)]
    ELSE
      LET labelW == estimateTextWidth(element.label, FONT_SIZES_nodeLabel,
                                      FONT_WEIGHTS_nodeLabel)
          techW  == estimateTextWidth(<<91>> \o element.technology \o <<93>>,
                                      C4_techFontSize, C4_techFontWeight)
          descW  == estimateTextWidth(element.description,
                                      C4_descFontSize, C4_descFontWeight)
          w1 == IF element.technology # <<>> THEN Max(labelW, techW) ELSE labelW
          maxTextW == IF element.description # <<>> THEN Max(w1, descW) ELSE w1
          textLines == 1 + (IF element.technology # <<>> THEN 1 ELSE 0)
                         + (IF element.description # <<>> THEN 1 ELSE 0)
      IN  [width  |-> Max(Px(C4_minBoxWidth), maxTextW + Px(C4_boxPadX) * 2),
           height |-> Max(Px(C4_minBoxHeight),
                          textLines * Px(C4_lineHeight) + Px(C4_boxPadY) * 2)]

\* elementSizes: a Map keyed by alias, so the last element of an alias wins
RECURSIVE elementSizesC4(_)
elementSizesC4(elements) ==
    IF elements = <<>> THEN <<>>
    ELSE LET n == Len(elements)
             e == elements[n]
         IN  (e.alias :> calculateElementSize(e))
               @@ elementSizesC4(SubSeq(elements, 1, n - 1))

\* step 2, first loop: one node per element, sized from elementSizes
RECURSIVE addElementNodesC4(_, _, _)
addElementNodesC4(gr, elements, sizes) ==
    IF elements = <<>> THEN gr
    ELSE LET e == Head(elements)
         IN  addElementNodesC4(
                 setNode(gr, e.alias,
                         NodeLabel(sizes[e.alias].width, sizes[e.alias].height, "")),
                 Tail(elements), sizes)

relLabelTextC4(rel) ==
    IF rel.technology # <<>>
    THEN rel.label \o <<32, 91>> \o rel.technology \o <<93>>
    ELSE rel.label

edgeLabelC4(rel, i) ==
    [index     |-> i,
     layerEdge |-> FALSE,
     minlen    |-> 1,
     weight    |-> 1,
     label     |-> relLabelTextC4(rel),
     width     |-> estimateTextWidth(relLabelTextC4(rel), FONT_SIZES_edgeLabel,
                                     FONT_WEIGHTS_edgeLabel) + Px(8),
     height    |-> Px(FONT_SIZES_edgeLabel + 6)]

\* step 2, second loop: one setEdge per relationship, tagged with its index;
\* i is the index of the first relationship still to add
RECURSIVE addRelationshipEdgesC4(_, _, _)
addRelationshipEdgesC4(gr, relationships, i) ==
    IF i > Len(relationships) THEN gr
    ELSE LET rel == relationships[i]
         IN  addRelationshipEdgesC4(
                 setEdge(gr, rel.from, rel.to, edgeLabelC4(rel, i)),
                 relationships, i + 1)

graphOptsC4 ==
    [nodesep |-> Px(C4_nodeSpacing), ranksep |-> Px(C4_layerSpacing),
     marginx |-> Px(C4_padding), marginy |-> Px(C4_padding)]

buildGraphC4(d) ==
    addRelationshipEdgesC4(
        addElementNodesC4(newGraph(graphOptsC4), d.elements,
                          elementSizesC4(d.elements)),
        d.relationships, 1)

(***************************************************************************)
(* The layout engine (dagre.layout), as the environment.                   *)
(*                                                                         *)
(* Any layered drawing of the graph handed over: cycles are broken by      *)
(* reversing a minimal set of edges (none when the graph is acyclic), a    *)
(* node's rank is its longest-path rank, so every edge kept points down    *)
(* by at least its minlen; ranks are stacked top to bottom ranksep apart,  *)
(* nodes of a rank stand side by side nodesep apart in any order, and the  *)
(* drawing is translated so that the leftmost and the topmost box touch    *)
(* the margins. A node without a label (one setEdge created) is laid out   *)
(* as a 0 x 0 box and nothing is written back to it. An edge label that    *)
(* sets no minlen or weight has the engine's defaults, 1 and 1.            *)
(***************************************************************************)
NodeSet(gr) == Range(gr.nodes)

EdgeSet(gr) == Range(gr.edges)

\* self-loops take no part in ranking
RankEdges(gr) == {e \in EdgeSet(gr) : e[1] # e[2]}

Oriented(E, F) == (E \ F) \cup {<<e[2], e[1]>> : e \in F}

RECURSIVE Closure(_, _)
Closure(R, k) ==
    IF k = 0 THEN R
    ELSE Closure(R \cup {<<p[1][1], p[2][2]>> :
                            p \in {q \in R \X R : q[1][2] = q[2][1]}}, k - 1)

Acyclic(N, E) == \A v \in N : <<v, v>> \notin Closure(E, Cardinality(N))

RECURSIVE totalWeight(_, _)
totalWeight(gr, F) ==
    IF F = {} THEN 0
    ELSE LET e == CHOOSE e \in F : TRUE
         IN  gr.elabel[e].weight + totalWeight(gr, F \ {e})

\* the sets of edges whose reversal leaves no cycle
breakingSets(gr) ==
    {F \in SUBSET RankEdges(gr) :
        Acyclic(NodeSet(gr), Oriented(RankEdges(gr), F))}

\* the sets of edges the greedy acyclicer may reverse: the lightest ones
FeedbackSets(gr) ==
    {F \in breakingSets(gr) :
        \A F2 \in breakingSets(gr) : totalWeight(gr, F) <= totalWeight(gr, F2)}

OrientedMinlen(gr, F, u, v) ==
    Max(IF <<u, v>> \in RankEdges(gr) \ F THEN gr.elabel[<<u, v>>].minlen ELSE 0,
        IF <<v, u>> \in F THEN gr.elabel[<<v, u>>].minlen ELSE 0)

RECURSIVE rankOf(_, _, _)
rankOf(gr, F, v) ==
    LET preds == {u \in NodeSet(gr) : <<u, v>> \in Oriented(RankEdges(gr), F)}
    IN  IF preds = {} THEN 0
        ELSE SetMax({rankOf(gr, F, u) + OrientedMinlen(gr, F, u, v) : u \in preds})

\* the rankings the engine may choose: one per way of breaking the cycles
RankChoices(gr) ==
    {[v \in NodeSet(gr) |-> rankOf(gr, F, v)] : F \in FeedbackSets(gr)}

\* the in-rank positions: the nodes of a rank fill the first columns, in any
\* order
ColumnChoices(gr, rank) ==
    LET N == NodeSet(gr)
        InRank(v) == {u \in N : rank[u] = rank[v]}
    IN  {col \in [N -> 0..(Cardinality(N) - 1)] :
            /\ \A u, v \in N : (u # v /\ rank[u] = rank[v]) => col[u] # col[v]
            /\ \A v \in N : col[v] < Cardinality(InRank(v))}

\* how the engine draws an edge: its polyline starts and ends on the outline
\* of the two boxes (on the faces that look at each other, or on their sides),
\* and has at most one interior point
EndStyles == {"face", "side"}

BendStyles == {"none", "src", "off"}

Point(x, y) == [x |-> x, y |-> y]

edgePoints(gr, x, y, e, ends, bend) ==
    LET v == e[1]
        w == e[2]
        hwv == gr.label[v].width \div 2
        hhv == gr.label[v].height \div 2
        hww == gr.label[w].width \div 2
        hhw == gr.label[w].height \div 2
        down == y[w] > y[v]
        faceV == IF down THEN y[v] + hhv ELSE y[v] - hhv
        faceW == IF down THEN y[w] - hhw ELSE y[w] + hhw
        start == IF ends = "face" THEN Point(x[v], faceV)
                 ELSE Point(x[v] + hwv, y[v])
        end   == IF ends = "face" THEN Point(x[w], faceW)
                 ELSE Point(x[w] - hww, y[w])
        midY == (faceV + faceW) \div 2
    IN  IF v = w
        THEN <<Point(x[v] + hwv, y[v]), Point(x[v] + hwv + Px(20), y[v]),
               Point(x[v] + hwv, y[v])>>
        ELSE CASE bend = "none" -> <<start, end>>
               [] bend = "src"  -> <<start, Point(start.x, midY), end>>
               [] OTHER         -> <<start,
                                     Point((x[v] + x[w]) \div 2 + Px(10), midY),
                                     end>>

\* the height of each rank: that of its tallest box
rowHeights(gr, rank) ==
    [r \in 0..SetMax({rank[v] : v \in NodeSet(gr)}) |->
        SetMax({gr.label[v].height : v \in {u \in NodeSet(gr) : rank[u] = r}} \cup {0})]

RECURSIVE rowTop(_, _, _)
rowTop(rowH, ranksep, r) ==
    IF r = 0 THEN 0 ELSE rowTop(rowH, ranksep, r - 1) + rowH[r - 1] + ranksep

\* the centres before translation: a box is centred in its rank and column
centresX(gr, col, colW) ==
    [v \in NodeSet(gr) |-> col[v] * (colW + gr.graph.nodesep) + colW \div 2]

centresY(gr, rank, rowH) ==
    [v \in NodeSet(gr) |->
        rowTop(rowH, gr.graph.ranksep, rank[v]) + rowH[rank[v]] \div 2]

shiftBy(c, d) == [v \in DOMAIN c |-> c[v] + d]

\* what the engine writes back: centres, edge points, the size of the drawing
writeBack(gr, rank, x, y, ends, bend) ==
    [x      |-> x,
     y      |-> y,
     rank   |-> rank,
     points |-> [e \in EdgeSet(gr) |-> edgePoints(gr, x, y, e, ends, bend)],
     width  |-> SetMax({x[v] + gr.label[v].width \div 2 : v \in NodeSet(gr)})
                  + gr.graph.marginx,
     height |-> SetMax({y[v] + gr.label[v].height \div 2 : v \in NodeSet(gr)})
                  + gr.graph.marginy]

translated(gr, rank, x0, y0, ends, bend) ==
    writeBack(gr, rank,
        shiftBy(x0, gr.graph.marginx
                      - SetMin({x0[v] - gr.label[v].width \div 2 : v \in NodeSet(gr)})),
        shiftBy(y0, gr.graph.marginy
                      - SetMin({y0[v] - gr.label[v].height \div 2 : v \in NodeSet(gr)})),
        ends, bend)

dagreLayout(gr, rank, col, ends, bend) ==
    translated(gr, rank,
        centresX(gr, col, SetMax({gr.label[v].width : v \in NodeSet(gr)})),
        centresY(gr, rank, rowHeights(gr, rank)),
        ends, bend)

(***************************************************************************)
(* Geometry adapter (dagre-adapter.ts): centerToTopLeft, snapToOrthogonal  *)
(* and clipEndpointsToNodes, from their contracts in the specification     *)
(* (sections 4.3 and 4.5).                                                 *)
(***************************************************************************)
centerToTopLeft(cx, cy, w, h) == [x |-> cx - w \div 2, y |-> cy - h \div 2]

\* the bend that makes the segment prev -> curr a right angle
orthoBend(prev, curr, verticalFirst) ==
    IF verticalFirst THEN Point(prev.x, curr.y) ELSE Point(curr.x, prev.y)

\* points i.. of the path, each preceded by a bend when it differs from its
\* predecessor in both coordinates
RECURSIVE snapFrom(_, _, _)
snapFrom(points, i, verticalFirst) ==
    IF i > Len(points) THEN <<>>
    ELSE LET prev == points[i - 1]
             curr == points[i]
         IN  (IF prev.x # curr.x /\ prev.y # curr.y
              THEN <<orthoBend(prev, curr, verticalFirst)>> ELSE <<>>)
               \o <<curr>> \o snapFrom(points, i + 1, verticalFirst)

\* snapToOrthogonal that turns a slanted segment into a Z: two bends, at the
\* height half way
snapToOrthogonal_zBends(points, verticalFirst) ==
    IF Len(points) < 2 THEN points
    ELSE <<points[1]>> \o
         [j \in 1..(3 * (Len(points) - 1)) |->
            LET i == (j + 2) \div 3
                prev == points[i]
                curr == points[i + 1]
                midY == (prev.y + curr.y) \div 2
            IN  CASE j % 3 = 1 -> Point(prev.x, midY)
                  [] j % 3 = 2 -> Point(curr.x, midY)
                  [] OTHER     -> curr]

snapToOrthogonal(points, verticalFirst) ==
    IF Len(points) < 2 THEN points
    ELSE <<points[1]>> \o snapFrom(points, 2, verticalFirst)

\* a shape descriptor {cx, cy, hw, hh}, or null
Box(cx, cy, hw, hh) == [null |-> FALSE, cx |-> cx, cy |-> cy, hw |-> hw, hh |-> hh]

NullBox == [null |-> TRUE, cx |-> 0, cy |-> 0, hw |-> 0, hh |-> 0]

InBox(p, b) ==
    /\ b.cx - b.hw <= p.x /\ p.x <= b.cx + b.hw
    /\ b.cy - b.hh <= p.y /\ p.y <= b.cy + b.hh

OnBoundary(p, b) ==
    /\ InBox(p, b)
    /\ \/ p.x = b.cx - b.hw \/ p.x = b.cx + b.hw
       \/ p.y = b.cy - b.hh \/ p.y = b.cy + b.hh

\* where a path that starts at p inside the box and goes on to q leaves the
\* box; p itself when the path does not start inside the box or the segment
\* p -> q does not leave it along an axis
exitPoint(p, q, b) ==
    IF ~InBox(p, b) THEN p
    ELSE IF p.x = q.x /\ q.y > b.cy + b.hh THEN Point(p.x, b.cy + b.hh)
    ELSE IF p.x = q.x /\ q.y < b.cy - b.hh THEN Point(p.x, b.cy - b.hh)
    ELSE IF p.y = q.y /\ q.x > b.cx + b.hw THEN Point(b.cx + b.hw, p.y)
    ELSE IF p.y = q.y /\ q.x < b.cx - b.hw THEN Point(b.cx - b.hw, p.y)
    ELSE p

\* the first point becomes the point where the path leaves the source box,
\* the last the point where it enters the target box; a null descriptor
\* leaves its endpoint alone
clipEndpointsToNodes(points, source, target) ==
    IF Len(points) < 2 THEN points
    ELSE LET n == Len(points)
             first == IF source.null THEN points[1]
                      ELSE exitPoint(points[1], points[2], source)
             last  == IF target.null THEN points[n]
                      ELSE exitPoint(points[n], points[n - 1], target)
         IN  [i \in 1..n |-> IF i = 1 THEN first
                             ELSE IF i = n THEN last ELSE points[i]]

(***************************************************************************)
(* C4 layout, steps 4 to 7                                                 *)
(***************************************************************************)
\* step 4: one positioned element per element of the diagram
positionedElementsC4(d, gr, ly) ==
    [i \in 1..Len(d.elements) |->
        LET element == d.elements[i]
            dagreNode == gr.label[element.alias]
            topLeft == centerToTopLeft(ly.x[element.alias], ly.y[element.alias],
                                       dagreNode.width, dagreNode.height)
        IN  [kind |-> element.kind, alias |-> element.alias,
             label |-> element.label, description |-> element.description,
             technology |-> element.technology,
             x |-> topLeft.x, y |-> topLeft.y,
             width |-> dagreNode.width, height |-> dagreNode.height]]

\* elementLookup: a Map keyed by alias, the last positioned element wins
lookupHas(positioned, alias) == \E i \in 1..Len(positioned) : positioned[i].alias = alias

lookupGet(positioned, alias) ==
    positioned[SetMax({i \in 1..Len(positioned) : positioned[i].alias = alias})]

\* nodeBox with the full width and height where the halves belong
nodeBox_fullSize(gr, ly, v) ==
    IF gr.label[v].has
    THEN Box(ly.x[v], ly.y[v], gr.label[v].width, gr.label[v].height)
    ELSE NullBox

\* g.node(v) turned into a shape descriptor, null for a node without label
nodeBox(gr, ly, v) ==
    IF gr.label[v].has
    THEN Box(ly.x[v], ly.y[v], gr.label[v].width \div 2, gr.label[v].height \div 2)
    ELSE NullBox

\* edgePath without the snapping step
edgePath_noSnap(gr, ly, e) ==
    clipEndpointsToNodes(ly.points[e], nodeBox(gr, ly, e[1]), nodeBox(gr, ly, e[2]))

\* the path of one edge: snapped, then clipped to the two boxes
edgePath(gr, ly, e) ==
    clipEndpointsToNodes(snapToOrthogonal(ly.points[e], TRUE),
                         nodeBox(gr, ly, e[1]), nodeBox(gr, ly, e[2]))

\* step 5: one relationship per edge of the graph, in g.edges() order
relationshipsC4(d, gr, ly) ==
    [k \in 1..Len(gr.edges) |->
        LET edgeObj == gr.edges[k]
            rel == d.relationships[gr.elabel[edgeObj].index]
        IN  [from |-> rel.from, to |-> rel.to, label |-> rel.label,
             technology |-> rel.technology,
             points |-> edgePath(gr, ly, edgeObj)]]

\* the rectangles a boundary wraps: its positioned member elements, then its
\* child boundaries
boundaryRects(boundary, children, positioned) ==
    LET members == SelectSeq(boundary.elements,
                             LAMBDA alias : lookupHas(positioned, alias))
    IN  [i \in 1..Len(members) |->
            LET pos == lookupGet(positioned, members[i])
            IN  [x |-> pos.x, y |-> pos.y,
                 right |-> pos.x + pos.width, bottom |-> pos.y + pos.height]]
        \o [i \in 1..Len(children) |->
            [x |-> children[i].x, y |-> children[i].y,
             right |-> children[i].x + children[i].width,
             bottom |-> children[i].y + children[i].height]]

\* boundaryBox with the header height left out of the top offset
boundaryBox_headerInside(boundary, children, rects) ==
    IF Len(rects) = 0
    THEN [alias |-> boundary.alias, x |-> 0, y |-> 0,
          width |-> Px(C4_minBoxWidth), height |-> Px(C4_minBoxHeight),
          children |-> children]
    ELSE LET minX == SetMin({rects[i].x : i \in 1..Len(rects)})
             minY == SetMin({rects[i].y : i \in 1..Len(rects)})
             maxX == SetMax({rects[i].right : i \in 1..Len(rects)})
             maxY == SetMax({rects[i].bottom : i \in 1..Len(rects)})
         IN  [alias |-> boundary.alias,
              x |-> minX - Px(C4_boundaryPadding),
              y |-> minY - Px(C4_boundaryPadding),
              width |-> (maxX - minX) + Px(C4_boundaryPadding) * 2,
              height |-> (maxY - minY) + Px(C4_boundaryPadding) * 2
                           + Px(C4_boundaryHeaderHeight),
              children |-> children]

boundaryBox(boundary, children, rects) ==
    IF Len(rects) = 0
    THEN [alias |-> boundary.alias, x |-> 0, y |-> 0,
          width |-> Px(C4_minBoxWidth), height |-> Px(C4_minBoxHeight),
          children |-> children]
    ELSE LET minX == SetMin({rects[i].x : i \in 1..Len(rects)})
             minY == SetMin({rects[i].y : i \in 1..Len(rects)})
             maxX == SetMax({rects[i].right : i \in 1..Len(rects)})
             maxY == SetMax({rects[i].bottom : i \in 1..Len(rects)})
         IN  [alias |-> boundary.alias,
              x |-> minX - Px(C4_boundaryPadding),
              y |-> minY - Px(C4_boundaryPadding) - Px(C4_boundaryHeaderHeight),
              width |-> (maxX - minX) + Px(C4_boundaryPadding) * 2,
              height |-> (maxY - minY) + Px(C4_boundaryPadding) * 2
                           + Px(C4_boundaryHeaderHeight),
              children |-> children]

RECURSIVE layoutBoundaries(_, _)
layoutBoundaries(boundaries, positioned) ==
    [i \in 1..Len(boundaries) |->
        LET boundary == boundaries[i]
            children == layoutBoundaries(boundary.childBoundaries, positioned)
        IN  boundaryBox(boundary, children,
                        boundaryRects(boundary, children, positioned))]

RECURSIVE flattenBoundaries(_)
flattenBoundaries(boundaries) ==
    IF boundaries = <<>> THEN <<>>
    ELSE <<Head(boundaries)>> \o flattenBoundaries(Head(boundaries).children)
           \o flattenBoundaries(Tail(boundaries))

\* step 7: the canvas
canvasC4(ly, boundaries) ==
    LET flat == flattenBoundaries(boundaries)
    IN  [width  |-> SetMax({ly.width} \cup
                      {flat[i].x + flat[i].width + Px(C4_padding) : i \in 1..Len(flat)}),
         height |-> SetMax({ly.height} \cup
                      {flat[i].y + flat[i].height + Px(C4_padding) : i \in 1..Len(flat)})]

\* the early return answering with the fallback canvas of step 7
EmptyResultC4_fallbackCanvas ==
    [width |-> Px(600), height |-> Px(400), elements |-> <<>>,
     relationships |-> <<>>, boundaries |-> <<>>]

EmptyResultC4 ==
    [width |-> 0, height |-> 0, elements |-> <<>>, relationships |-> <<>>,
     boundaries |-> <<>>]

finishC4(d, gr, ly) ==
    LET positioned == positionedElementsC4(d, gr, ly)
        boundaries == layoutBoundaries(d.boundaries, positioned)
        canvas == canvasC4(ly, boundaries)
    IN  [width |-> canvas.width, height |-> canvas.height,
         elements |-> positioned,
         relationships |-> relationshipsC4(d, gr, ly),
         boundaries |-> boundaries]

(***************************************************************************)
(* Inputs of layoutC4Diagram                                               *)
(***************************************************************************)
MaxRels == 2

LongText == [i \in 1..24 |-> 97]

C4Element(kind, alias, label, technology, description) ==
    [kind |-> kind, alias |-> alias, label |-> label,
     technology |-> technology, description |-> description]

elA == C4Element("Person", "a", <<65>>, <<>>, <<>>)

elA2 == C4Element("System", "a", <<65, 50>>, <<>>, LongText)

elB == C4Element("System", "b", <<66>>, <<>>, LongText)

elC == C4Element("Container", "c", <<20013, 25991>>, <<74, 83>>, <<100>>)

elP == C4Element("Person", "p", LongText, <<>>, <<>>)

\* a boundary: its alias, the aliases of its member elements (the layout reads
\* nothing else of a member), its child boundaries
C4Boundary(alias, elements, childBoundaries) ==
    [alias |-> alias, elements |-> elements, childBoundaries |-> childBoundaries]

C4Skeletons ==
    { [elements |-> <<>>, boundaries |-> <<>>],
      [elements |-> <<>>, boundaries |-> <<C4Boundary("B1", <<>>, <<>>)>>],
      [elements |-> <<elA>>, boundaries |-> <<>>],
      [elements |-> <<elA, elB>>,
       boundaries |-> <<C4Boundary("B1", <<"a", "b">>, <<>>)>>],
      [elements |-> <<elA, elB>>,
       boundaries |-> <<C4Boundary("B1", <<"b">>,
                            <<C4Boundary("B2", <<"a">>, <<>>)>>)>>],
      [elements |-> <<elB, elA, elC>>,
       boundaries |-> <<C4Boundary("B1", <<"a">>,
                            <<C4Boundary("B2", <<>>, <<>>)>>),
                        C4Boundary("B3", <<"c">>, <<>>)>>],
      [elements |-> <<elA, elB>>,
       boundaries |-> <<C4Boundary("B1", <<>>,
                            <<C4Boundary("B2", <<>>,
                                <<C4Boundary("B3", <<"b">>, <<>>)>>)>>)>>],
      [elements |-> <<elA, elA2>>,
       boundaries |-> <<C4Boundary("B1", <<"a">>, <<>>)>>],
      [elements |-> <<elB>>,
       boundaries |-> <<C4Boundary("B1", <<"c">>, <<>>)>>],
      [elements |-> <<elP, elB>>, boundaries |-> <<>>] }

\* the endpoints relationships are drawn from; "z" is never an element's alias
RelPairs ==
    {<<"a", "b">>, <<"b", "a">>, <<"a", "a">>, <<"a", "z">>, <<"z", "b">>, <<"b", "c">>}

RelPairSeqs == UNION {[1..k -> RelPairs] : k \in 0..MaxRels}

C4Relationships(pairs) ==
    [i \in 1..Len(pairs) |->
        [from |-> pairs[i][1], to |-> pairs[i][2], label |-> <<76, 48 + i>>,
         technology |-> IF i = 2 THEN <<84>> ELSE <<>>]]

C4Diagrams ==
    {[elements |-> sk.elements, relationships |-> C4Relationships(pairs),
      boundaries |-> sk.boundaries] : sk \in C4Skeletons, pairs \in RelPairSeqs}

(***************************************************************************)
(* layoutC4Diagram as a state machine: the call up to dagre.layout, the    *)
(* engine's answer (a drawing, or an exception), the rest of the call.     *)
(***************************************************************************)
DagreCauses ==
    {"Not possible to find intersection inside of the rectangle",
     "Cannot read properties of undefined"}

InitC4 ==
    /\ fn = "c4"
    /\ pc = "call"
    /\ diagram \in C4Diagrams
    /\ g = None
    /\ lay = None
    /\ res = None
    /\ err = ""
    /\ pin = None
    /\ pout = None

\* layout.ts 61-100: the empty diagram returns at once, otherwise the graph
\* is built
C4Call ==
    /\ fn = "c4"
    /\ pc = "call"
    /\ IF Len(diagram.elements) = 0
       THEN /\ res' = EmptyResultC4
            /\ pc' = "done"
            /\ g' = g
       ELSE /\ g' = buildGraphC4(diagram)
            /\ pc' = "dagre"
            /\ res' = res
    /\ UNCHANGED <<fn, diagram, lay, err, pin, pout>>

\* dagre.layout(g) returns
DagreLayoutOk ==
    /\ pc = "dagre"
    /\ \E rank \in RankChoices(g) :
         \E col \in ColumnChoices(g, rank), ends \in EndStyles, bend \in BendStyles :
            lay' = dagreLayout(g, rank, col, ends, bend)
    /\ pc' = "extract"
    /\ UNCHANGED <<fn, diagram, g, res, err, pin, pout>>

\* layout.ts 103-108, renderer.ts 582-587: dagre.layout(g) throws, the catch
\* clause rethrows
\* the catch clause rethrowing the cause as it came
dagreFailure_bare(family, cause) == cause

dagreFailure(family, cause) ==
    IF family = "c4"
    THEN "Dagre layout failed (C4 diagram): " \o cause
    ELSE "Dagre layout failed (ArchiMate diagram): " \o cause

DagreLayoutThrows ==
    /\ pc = "dagre"
    /\ \E cause \in DagreCauses :
          /\ lay' = [threw |-> cause]
          /\ err' = dagreFailure(fn, cause)
    /\ pc' = "failed"
    /\ UNCHANGED <<fn, diagram, g, res, pin, pout>>

\* layout.ts 110-179
C4Finish ==
    /\ fn = "c4"
    /\ pc = "extract"
    /\ res' = finishC4(diagram, g, lay)
    /\ pc' = "done"
    /\ UNCHANGED <<fn, diagram, g, lay, err, pin, pout>>

NextC4 == C4Call \/ DagreLayoutOk \/ DagreLayoutThrows \/ C4Finish

SpecC4 == InitC4 /\ [][NextC4]_vars

(***************************************************************************)
(* ArchiMate layout: src/src/archimate/renderer.ts                         *)
(*                                                                         *)
(* diagram.elements is a Map: [order, at], the ids in insertion order and  *)
(* the element of each. diagram.layers is a Map from layer to the list of  *)
(* its elements; a layer without entry has the empty list (the layout      *)
(* treats both alike).                                                     *)
(***************************************************************************)
LAYER_ORDER ==
    <<"strategy", "motivation", "business", "application", "technology",
      "physical", "implementation">>

ARCHIMATE_padding == 40

ARCHIMATE_minElementWidth == 120

ARCHIMATE_elementHeight == 50

ARCHIMATE_layerPadding == 20

ARCHIMATE_layerLabelHeight == 24

ARCHIMATE_nodeSpacing == 40

ARCHIMATE_layerSpacing == 60

ARCHIMATE_typeIndicatorSize == 9

\* step 1
presentLayers(d) == SelectSeq(LAYER_ORDER, LAMBDA layer : Len(d.layers[layer]) > 0)

\* step 2
elementSizeAM(element) ==
    LET labelWidth == estimateTextWidth(element.label, FONT_SIZES_nodeLabel,
                                        FONT_WEIGHTS_nodeLabel)
        typeWidth == estimateTextWidth(element.type, ARCHIMATE_typeIndicatorSize, 400)
    IN  [width  |-> Max(Px(ARCHIMATE_minElementWidth),
                        Max(labelWidth + Px(24),
                            typeWidth + labelWidth \div 2 + Px(24))),
         height |-> Px(ARCHIMATE_elementHeight)]

graphOptsAM ==
    [nodesep |-> Px(ARCHIMATE_nodeSpacing), ranksep |-> Px(ARCHIMATE_layerSpacing),
     marginx |-> Px(ARCHIMATE_padding), marginy |-> Px(ARCHIMATE_padding)]

\* step 3, the element nodes; i is the position of the first id still to add
RECURSIVE addElementNodesAM(_, _, _)
addElementNodesAM(gr, d, i) ==
    IF i > Len(d.elements.order) THEN gr
    ELSE LET id == d.elements.order[i]
             size == elementSizeAM(d.elements.at[id])
         IN  addElementNodesAM(
                 setNode(gr, id, NodeLabel(size.width, size.height,
                                           d.elements.at[id].layer)),
                 d, i + 1)

layerEdgeLabel ==
    [index |-> 0, layerEdge |-> TRUE, minlen |-> 2, weight |-> 10,
     label |-> <<>>, width |-> 0, height |-> 0]

\* step 3, the invisible edges: first element of each present layer to the
\* first element of the next; i is the position of the lower layer
RECURSIVE addLayerEdges(_, _, _, _)
addLayerEdges(gr, d, present, i) ==
    IF i > Len(present) THEN gr
    ELSE addLayerEdges(
             setEdge(gr, d.layers[present[i - 1]][1].id, d.layers[present[i]][1].id,
                     layerEdgeLabel),
             d, present, i + 1)

edgeLabelAM(rel, i) ==
    [index     |-> i,
     layerEdge |-> FALSE,
     minlen    |-> 1,
     weight    |-> 1,
     label     |-> rel.label,
     width     |-> IF rel.label # <<>>
                   THEN estimateTextWidth(rel.label, FONT_SIZES_edgeLabel,
                                          FONT_WEIGHTS_edgeLabel) + Px(8)
                   ELSE 0,
     height    |-> IF rel.label # <<>> THEN Px(FONT_SIZES_edgeLabel + 6) ELSE 0]

\* endpointsExist testing the source only
endpointsExist_sourceOnly(d, rel) == rel.source \in Range(d.elements.order)

\* whether both endpoints of a relationship are declared elements
endpointsExist(d, rel) ==
    rel.source \in Range(d.elements.order) /\ rel.target \in Range(d.elements.order)

\* step 3, the real edges
RECURSIVE addRelationshipEdgesAM(_, _, _)
addRelationshipEdgesAM(gr, d, i) ==
    IF i > Len(d.relationships) THEN gr
    ELSE LET rel == d.relationships[i]
         IN  addRelationshipEdgesAM(
                 IF endpointsExist(d, rel)
                 THEN setEdge(gr, rel.source, rel.target, edgeLabelAM(rel, i))
                 ELSE gr,
                 d, i + 1)

buildGraphAM(d) ==
    addRelationshipEdgesAM(
        addLayerEdges(addElementNodesAM(newGraph(graphOptsAM), d, 1),
                      d, presentLayers(d), 2),
        d, 1)

\* step 5
positionedElementsAM(d, gr, ly) ==
    [i \in 1..Len(d.elements.order) |->
        LET id == d.elements.order[i]
            element == d.elements.at[id]
            dagreNode == gr.label[id]
            topLeft == centerToTopLeft(ly.x[id], ly.y[id],
                                       dagreNode.width, dagreNode.height)
        IN  [id |-> id, label |-> element.label, type |-> element.type,
             layer |-> element.layer, x |-> topLeft.x, y |-> topLeft.y,
             width |-> dagreNode.width, height |-> dagreNode.height]]

\* step 6: the band of one layer around its positioned elements
layerBand(layer, layerElements) ==
    LET I == 1..Len(layerElements)
        minX == SetMin({layerElements[i].x : i \in I})
        minY == SetMin({layerElements[i].y : i \in I})
        maxX == SetMax({layerElements[i].x + layerElements[i].width : i \in I})
        maxY == SetMax({layerElements[i].y + layerElements[i].height : i \in I})
    IN  [name |-> layer,
         x |-> minX - Px(ARCHIMATE_layerPadding),
         y |-> minY - Px(ARCHIMATE_layerPadding) - Px(ARCHIMATE_layerLabelHeight),
         width |-> (maxX - minX) + Px(ARCHIMATE_layerPadding) * 2,
         height |-> (maxY - minY) + Px(ARCHIMATE_layerPadding) * 2
                      + Px(ARCHIMATE_layerLabelHeight)]

\* the bands sized one by one, in presentLayers order, layers without a
\* positioned element skipped
RECURSIVE bandsOf(_, _)
bandsOf(present, positioned) ==
    IF present = <<>> THEN <<>>
    ELSE (IF \E i \in 1..Len(positioned) : positioned[i].layer = Head(present)
          THEN <<layerBand(Head(present),
                           SelectSeq(positioned, LAMBDA e : e.layer = Head(present)))>>
          ELSE <<>>)
           \o bandsOf(Tail(present), positioned)

\* the bands made to share one x and one width
\* normalizeBands giving every band the largest of the bands' own widths
normalizeBands_maxWidth(bands) ==
    IF Len(bands) = 0 THEN bands
    ELSE [i \in 1..Len(bands) |->
            [bands[i] EXCEPT !.x = SetMin({bands[j].x : j \in 1..Len(bands)}),
                             !.width = SetMax({bands[j].width : j \in 1..Len(bands)})]]

normalizeBands(bands) ==
    IF Len(bands) = 0 THEN bands
    ELSE LET globalMinX == SetMin({bands[i].x : i \in 1..Len(bands)})
             globalMaxRight == SetMax({bands[i].x + bands[i].width : i \in 1..Len(bands)})
         IN  [i \in 1..Len(bands) |->
                [bands[i] EXCEPT !.x = globalMinX,
                                 !.width = globalMaxRight - globalMinX]]

positionedLayers(d, positioned) == normalizeBands(bandsOf(presentLayers(d), positioned))

\* step 7: the edges that carry a relationship
realEdges(gr) ==
    SelectSeq(gr.edges,
              LAMBDA e : ~gr.elabel[e].layerEdge /\ gr.elabel[e].index # 0)

\* step 7 without the two skips: an invisible edge is returned as a
\* relationship between its two elements
relationshipsAM_allEdges(d, gr, ly) ==
    [k \in 1..Len(gr.edges) |->
        LET e == gr.edges[k]
        IN  IF gr.elabel[e].layerEdge
            THEN [source |-> e[1], target |-> e[2], type |-> "association",
                  label |-> <<>>, points |-> edgePath(gr, ly, e)]
            ELSE [source |-> d.relationships[gr.elabel[e].index].source,
                  target |-> d.relationships[gr.elabel[e].index].target,
                  type |-> d.relationships[gr.elabel[e].index].type,
                  label |-> d.relationships[gr.elabel[e].index].label,
                  points |-> edgePath(gr, ly, e)]]

relationshipsAM(d, gr, ly) ==
    LET es == realEdges(gr)
    IN  [k \in 1..Len(es) |->
            LET rel == d.relationships[gr.elabel[es[k]].index]
            IN  [source |-> rel.source, target |-> rel.target, type |-> rel.type,
                 label |-> rel.label, points |-> edgePath(gr, ly, es[k])]]

EmptyResultAM ==
    [width |-> 0, height |-> 0, layers |-> <<>>, elements |-> <<>>,
     relationships |-> <<>>]

finishAM(d, gr, ly) ==
    [width |-> ly.width, height |-> ly.height,
     layers |-> positionedLayers(d, positionedElementsAM(d, gr, ly)),
     elements |-> positionedElementsAM(d, gr, ly),
     relationships |-> relationshipsAM(d, gr, ly)]

(***************************************************************************)
(* Inputs of layoutArchiMateDiagram, built as parseArchimate builds them   *)
(* (src/src/archimate/parser.ts): each declared element is set in the      *)
(* elements Map under its id and pushed on the list of its layer.          *)
(***************************************************************************)
LayerNames == Range(LAYER_ORDER)

AMElement(id, label, type, layer) ==
    [id |-> id, label |-> label, type |-> type, layer |-> layer]

EmptyDiagramAM ==
    [layers |-> [l \in LayerNames |-> <<>>],
     elements |-> [order |-> <<>>, at |-> <<>>],
     relationships |-> <<>>]

\* parser.ts 135-141
declareElement(d, element) ==
    [d EXCEPT
       !.elements = [order |-> IF element.id \in Range(d.elements.order)
                               THEN d.elements.order
                               ELSE Append(d.elements.order, element.id),
                     at |-> (element.id :> element) @@ d.elements.at],
       !.layers[element.layer] = Append(@, element)]

RECURSIVE declareAll(_, _)
declareAll(d, elements) ==
    IF elements = <<>> THEN d
    ELSE declareAll(declareElement(d, Head(elements)), Tail(elements))

TypeActor == <<97, 99, 116, 111, 114>>

TypeComponent == <<99, 111, 109, 112, 111, 110, 101, 110, 116>>

TypeNode == <<110, 111, 100, 101>>

busA == AMElement("a", <<97>>, TypeActor, "business")

busB == AMElement("b", LongText, TypeActor, "business")

busC == AMElement("c", <<99>>, TypeActor, "business")

appA == AMElement("a", <<97>>, TypeComponent, "application")

appB == AMElement("b", <<98>>, TypeComponent, "application")

appC == AMElement("c", <<99>>, TypeComponent, "application")

techC == AMElement("c", <<99>>, TypeNode, "technology")

AMDeclarations ==
    { <<>>,
      <<busA>>,
      <<busA, appB>>,
      <<busA, busB, appC>>,
      <<appA, busB>>,
      <<busA, appA>>,
      <<busA, appB, techC>>,
      <<techC, busB, appA>>,
      <<busA, appB, appC>>,
      <<busB, appA, appC>>,
      <<busA, busC, appB>> }

AMRelationships(pairs) ==
    [i \in 1..Len(pairs) |->
        [source |-> pairs[i][1], target |-> pairs[i][2],
         type |-> IF i = 1 THEN "serving" ELSE "flow",
         label |-> IF i = 2 THEN <<76>> ELSE <<>>]]

\* the endpoints relationships are drawn from; "z" is never an element's id
AMRelPairs ==
    {<<"a", "b">>, <<"c", "b">>, <<"a", "a">>, <<"a", "z">>, <<"z", "b">>}

AMRelPairSeqs == UNION {[1..k -> AMRelPairs] : k \in 0..MaxRels}

AMDiagrams ==
    {[declareAll(EmptyDiagramAM, decls) EXCEPT !.relationships = AMRelationships(pairs)] :
        decls \in AMDeclarations, pairs \in AMRelPairSeqs}

(***************************************************************************)
(* layoutArchiMateDiagram as a state machine                               *)
(***************************************************************************)
InitAM ==
    /\ fn = "archimate"
    /\ pc = "call"
    /\ diagram \in AMDiagrams
    /\ g = None
    /\ lay = None
    /\ res = None
    /\ err = ""
    /\ pin = None
    /\ pout = None

\* renderer.ts 497-579
AMCall ==
    /\ fn = "archimate"
    /\ pc = "call"
    /\ IF Len(diagram.elements.order) = 0
       THEN /\ res' = EmptyResultAM
            /\ pc' = "done"
            /\ g' = g
       ELSE /\ g' = buildGraphAM(diagram)
            /\ pc' = "dagre"
            /\ res' = res
    /\ UNCHANGED <<fn, diagram, lay, err, pin, pout>>

\* renderer.ts 589-689
AMFinish ==
    /\ fn = "archimate"
    /\ pc = "extract"
    /\ res' = finishAM(diagram, g, lay)
    /\ pc' = "done"
    /\ UNCHANGED <<fn, diagram, g, lay, err, pin, pout>>

NextAM == AMCall \/ DagreLayoutOk \/ DagreLayoutThrows \/ AMFinish

SpecAM == InitAM /\ [][NextAM]_vars

(***************************************************************************)
(* The two layouts together                                                *)
(***************************************************************************)
Init == InitC4 \/ InitAM

Next == C4Call \/ AMCall \/ DagreLayoutOk \/ DagreLayoutThrows \/ C4Finish \/ AMFinish

Spec == Init /\ [][Next]_vars

(***************************************************************************)
(* snapToOrthogonal on its own: any path of up to MaxPath points on a      *)
(* small grid, either primary axis                                         *)
(***************************************************************************)
MaxPath == 3

MaxCoord == 2

GridPoints == {Point(x, y) : x \in 0..MaxCoord, y \in 0..MaxCoord}

Paths == UNION {[1..n -> GridPoints] : n \in 0..MaxPath}

InitPath ==
    /\ fn = "snap"
    /\ pc = "call"
    /\ pin \in {[points |-> pts, verticalFirst |-> vf] : pts \in Paths, vf \in BOOLEAN}
    /\ pout = None
    /\ diagram = None
    /\ g = None
    /\ lay = None
    /\ res = None
    /\ err = ""

SnapCall ==
    /\ fn = "snap"
    /\ pc = "call"
    /\ pout' = snapToOrthogonal(pin.points, pin.verticalFirst)
    /\ pc' = "done"
    /\ UNCHANGED <<fn, diagram, g, lay, res, err, pin>>

NextPath == SnapCall

SpecPath == InitPath /\ [][NextPath]_vars

(***************************************************************************)
(* The text metrics of styles.ts on their own: a text of up to MaxText     *)
(* code points is measured, and measured again with one more code point    *)
(* or at a heavier weight                                                  *)
(***************************************************************************)
MaxText == 2

\* A, U+3400 (CJK Extension A), U+4E2D, U+D55C (Hangul), U+FF21 (fullwidth A),
\* U+1F600 (emoji), U+20000 (CJK Extension B)
CodePoints == {65, 13312, 20013, 54620, 65313, 128512, 131072}

Texts == UNION {[1..n -> CodePoints] : n \in 0..MaxText}

\* the sizes and weights of FONT_SIZES and FONT_WEIGHTS and of the C4 texts,
\* and the weights next to the two thresholds
TextSizes == {10, 11, 12, 13}

TextWeights == {400, 499, 500, 599, 600}

measure(in) ==
    [columns |-> getDisplayWidth(in.text),
     width   |-> estimateTextWidth(in.text, in.fontSize, in.fontWeight)]

InitText ==
    /\ fn = "text"
    /\ pc = "call"
    /\ pin \in [text : Texts, fontSize : TextSizes, fontWeight : TextWeights]
    /\ pout = None
    /\ diagram = None
    /\ g = None
    /\ lay = None
    /\ res = None
    /\ err = ""

TextCall ==
    /\ fn = "text"
    /\ pc = "call"
    /\ pout' = measure(pin)
    /\ pc' = "done"
    /\ UNCHANGED <<fn, diagram, g, lay, res, err, pin>>

\* the same text with one more code point, same size and weight
TextAppend ==
    /\ fn = "text"
    /\ pc = "done"
    /\ Len(pin.text) < MaxText
    /\ \E char \in CodePoints :
          /\ pin' = [pin EXCEPT !.text = Append(pin.text, char)]
          /\ pout' = measure(pin')
    /\ UNCHANGED <<fn, pc, diagram, g, lay, res, err>>

\* the same text and size at a heavier weight
TextHeavier ==
    /\ fn = "text"
    /\ pc = "done"
    /\ \E w \in TextWeights :
          /\ w > pin.fontWeight
          /\ pin' = [pin EXCEPT !.fontWeight = w]
          /\ pout' = measure(pin')
    /\ UNCHANGED <<fn, pc, diagram, g, lay, res, err>>

NextText == TextCall \/ TextAppend \/ TextHeavier

SpecText == InitText /\ [][NextText]_vars

(***************************************************************************)
(* theme.ts: the colour cascade.  A colour string is the sequence of its   *)
(* characters; an optional colour that is not given is Undefined.          *)
(***************************************************************************)
Undefined == <<"undefined">>

\* JavaScript truthiness of an optional string
Truthy(value) == value # Undefined /\ value # <<>>

MIX ==
    [text |-> 100, textSec |-> 60, textMuted |-> 40, textFaint |-> 25,
     line |-> 30, arrow |-> 50, nodeFill |-> 3, nodeStroke |-> 20,
     groupHeader |-> 5, innerStroke |-> 12, keyBadge |-> 10]

HexLower == <<"0", "1", "2", "3", "4", "5", "6", "7", "8", "9",
              "a", "b", "c", "d", "e", "f">>

HexUpper == <<"0", "1", "2", "3", "4", "5", "6", "7", "8", "9",
              "A", "B", "C", "D", "E", "F">>

IsHexDigit(ch) == \E i \in 1..16 : HexLower[i] = ch \/ HexUpper[i] = ch

\* the number NaN, which no channel otherwise takes
NaN == -2

\* parseInt(h.slice(i - 1, i + 1), 16): the hex digits in front, NaN when the
\* first character is not one
parseInt16(h, i) ==
    LET digit(ch) == (CHOOSE k \in 1..16 : HexLower[k] = ch \/ HexUpper[k] = ch) - 1
    IN  IF ~IsHexDigit(h[i]) THEN NaN
        ELSE IF ~IsHexDigit(h[i + 1]) THEN digit(h[i])
        ELSE 16 * digit(h[i]) + digit(h[i + 1])

\* Math.max(lo, Math.min(hi, v))
clamp(lo, hi, v) == IF v = NaN THEN NaN ELSE Max(lo, Min(hi, v))

\* /^#(?:[0-9a-fA-F]{3}|[0-9a-fA-F]{6}|[0-9a-fA-F]{8})$/.test(value)
HEX_RE(value) ==
    /\ Len(value) \in {4, 7, 9}
    /\ value[1] = "#"
    /\ \A i \in 2..Len(value) : IsHexDigit(value[i])

\* validateHexColor accepting whatever is not bg or fg
validateHexColor_requiredOnly(value, label) ==
    IF label \in {"bg", "fg"} /\ ~HEX_RE(value)
    THEN "Invalid color for '" \o label \o "'" ELSE ""

\* the message of the error validateHexColor throws, up to the label, or ""
\* when it returns
validateHexColor(value, label) ==
    IF ~HEX_RE(value) THEN "Invalid color for '" \o label \o "'" ELSE ""

\* parseHex reading three digits as the first three of six
parseHex_noShorthand(hex) ==
    LET h0 == IF hex # <<>> /\ Head(hex) = "#" THEN Tail(hex) ELSE hex
        h  == IF Len(h0) = 3
              THEN <<h0[1], h0[2], h0[3], "0", "0", "0">> ELSE h0
    IN  IF Len(h) # 6 /\ Len(h) # 8
        THEN [threw |-> "Invalid hex color"]
        ELSE [r |-> parseInt16(h, 1), g |-> parseInt16(h, 3), b |-> parseInt16(h, 5),
              a |-> IF Len(h) = 8 THEN clamp(0, 255, parseInt16(h, 7)) ELSE -1]

\* a is -1 where the code leaves it undefined; [threw |-> message] for a
\* wrong number of digits.  The characters after the '#' are hex digits.
parseHex(hex) ==
    LET h0 == IF hex # <<>> /\ Head(hex) = "#" THEN Tail(hex) ELSE hex
        h  == IF Len(h0) = 3
              THEN <<h0[1], h0[1], h0[2], h0[2], h0[3], h0[3]>> ELSE h0
    IN  IF Len(h) # 6 /\ Len(h) # 8
        THEN [threw |-> "Invalid hex color"]
        ELSE [r |-> parseInt16(h, 1), g |-> parseInt16(h, 3), b |-> parseInt16(h, 5),
              a |-> IF Len(h) = 8 THEN clamp(0, 255, parseInt16(h, 7)) ELSE -1]

\* toHex writing the alpha channel whenever there is one
toHex_alwaysAlpha(rgba) ==
    LET n(v) == (clamp(0, 25500, v) + 50) \div 100
        c(v) == IF v = NaN THEN <<"N", "a", "N">>
                ELSE <<HexLower[(n(v) \div 16) + 1], HexLower[(n(v) % 16) + 1]>>
        hex  == <<"#">> \o c(rgba.r) \o c(rgba.g) \o c(rgba.b)
    IN  IF rgba.a # -1 THEN hex \o c(rgba.a) ELSE hex

\* channels are in hundredths, so that the interpolated values are exact
toHex(rgba) ==
    LET n(v) == (clamp(0, 25500, v) + 50) \div 100
        c(v) == IF v = NaN THEN <<"N", "a", "N">>
                ELSE <<HexLower[(n(v) \div 16) + 1], HexLower[(n(v) % 16) + 1]>>
        hex  == <<"#">> \o c(rgba.r) \o c(rgba.g) \o c(rgba.b)
    IN  IF rgba.a # -1 /\ rgba.a # 25500 THEN hex \o c(rgba.a) ELSE hex

\* b + t * (f - b) with t = pct / 100, in hundredths.  The code computes it in
\* floating point, where a value that lies exactly halfway between two
\* integers can come out just below it: below says that it does.
lerp(b, f, pct, below) ==
    IF below /\ (100 * b + pct * (f - b)) % 100 = 50
    THEN 100 * b + pct * (f - b) - 1
    ELSE 100 * b + pct * (f - b)

\* colorMixFloat mixing bg into fg
colorMixFloat_bgIntoFg(fg, bg, pct, down) ==
    LET f == parseHex(fg)
        b == parseHex(bg)
        fa == IF f.a = -1 THEN 255 ELSE f.a
        ba == IF b.a = -1 THEN 255 ELSE b.a
    IN  toHex([r |-> lerp(f.r, b.r, pct, "r" \in down),
               g |-> lerp(f.g, b.g, pct, "g" \in down),
               b |-> lerp(f.b, b.b, pct, "b" \in down),
               a |-> IF f.a # -1 \/ b.a # -1
                     THEN clamp(0, 25500, lerp(fa, ba, pct, "a" \in down))
                     ELSE -1])

\* colorMix, down being the channels whose halfway value comes out just below
colorMixFloat(fg, bg, pct, down) ==
    LET f == parseHex(fg)
        b == parseHex(bg)
        fa == IF f.a = -1 THEN 255 ELSE f.a
        ba == IF b.a = -1 THEN 255 ELSE b.a
    IN  toHex([r |-> lerp(b.r, f.r, pct, "r" \in down),
               g |-> lerp(b.g, f.g, pct, "g" \in down),
               b |-> lerp(b.b, f.b, pct, "b" \in down),
               a |-> IF f.a # -1 \/ b.a # -1
                     THEN clamp(0, 25500, lerp(ba, fa, pct, "a" \in down))
                     ELSE -1])

\* at the percentages of MIX no halfway value comes out below, whatever the
\* channels of fg and bg
colorMix(fg, bg, pct) == colorMixFloat(fg, bg, pct, {})

DeriveRule(cssVar, mixKey, override, source) ==
    [cssVar |-> cssVar, mixKey |-> mixKey, override |-> override, source |-> source]

\* COLOR_GRAPH with _text-sec never overridden
COLOR_GRAPH_secNotOverridable ==
    << DeriveRule("_text",         "text",        "null",    "fg"),
       DeriveRule("_text-sec",     "textSec",     "null",    "null"),
       DeriveRule("_text-muted",   "textMuted",   "muted",   "null"),
       DeriveRule("_text-faint",   "textFaint",   "null",    "null"),
       DeriveRule("_line",         "line",        "line",    "null"),
       DeriveRule("_arrow",        "arrow",       "accent",  "null"),
       DeriveRule("_node-fill",    "nodeFill",    "surface", "null"),
       DeriveRule("_node-stroke",  "nodeStroke",  "border",  "null"),
       DeriveRule("_group-fill",   "null",        "null",    "bg"),
       DeriveRule("_group-hdr",    "groupHeader", "null",    "null"),
       DeriveRule("_inner-stroke", "innerStroke", "null",    "null"),
       DeriveRule("_key-badge",    "keyBadge",    "null",    "null") >>

COLOR_GRAPH ==
    << DeriveRule("_text",         "text",        "null",    "fg"),
       DeriveRule("_text-sec",     "textSec",     "muted",   "null"),
       DeriveRule("_text-muted",   "textMuted",   "muted",   "null"),
       DeriveRule("_text-faint",   "textFaint",   "null",    "null"),
       DeriveRule("_line",         "line",        "line",    "null"),
       DeriveRule("_arrow",        "arrow",       "accent",  "null"),
       DeriveRule("_node-fill",    "nodeFill",    "surface", "null"),
       DeriveRule("_node-stroke",  "nodeStroke",  "border",  "null"),
       DeriveRule("_group-fill",   "null",        "null",    "bg"),
       DeriveRule("_group-hdr",    "groupHeader", "null",    "null"),
       DeriveRule("_inner-stroke", "innerStroke", "null",    "null"),
       DeriveRule("_key-badge",    "keyBadge",    "null",    "null") >>

\* colors[rule.override], undefined when the rule has no override
overrideValue(rule, colors) ==
    IF rule.override # "null" THEN colors[rule.override] ELSE Undefined

\* the error one pass of the loop of resolveColors throws, "" when none
ruleError(rule, colors) ==
    IF rule.source = "null" /\ Truthy(overrideValue(rule, colors))
    THEN validateHexColor(overrideValue(rule, colors), rule.override)
    ELSE ""

\* the value one pass of the loop of resolveColors stores
ruleValue(rule, colors) ==
    IF rule.source = "fg" THEN colors.fg
    ELSE IF rule.source = "bg" THEN colors.bg
    ELSE IF Truthy(overrideValue(rule, colors)) THEN overrideValue(rule, colors)
    ELSE colorMix(colors.fg, colors.bg, MIX[rule.mixKey])

\* [threw |-> message] for the first error in the order of the code, else
\* [value |-> the resolved colours by name]
resolveColors(colors) ==
    IF validateHexColor(colors.bg, "bg") # ""
    THEN [threw |-> validateHexColor(colors.bg, "bg")]
    ELSE IF validateHexColor(colors.fg, "fg") # ""
    THEN [threw |-> validateHexColor(colors.fg, "fg")]
    ELSE IF \E i \in DOMAIN COLOR_GRAPH : ruleError(COLOR_GRAPH[i], colors) # ""
    THEN [threw |-> ruleError(COLOR_GRAPH[SetMin({i \in DOMAIN COLOR_GRAPH :
                                  ruleError(COLOR_GRAPH[i], colors) # ""})], colors)]
    ELSE [value |->
            [k \in {"bg"} \cup {COLOR_GRAPH[i].cssVar : i \in DOMAIN COLOR_GRAPH} |->
                IF k = "bg" THEN colors.bg
                ELSE ruleValue(COLOR_GRAPH[SetMax({i \in DOMAIN COLOR_GRAPH :
                                   COLOR_GRAPH[i].cssVar = k})], colors)]]

\* the declarations of the derived variables in the style block, each with
\* the structure of its expression: var(--fg), var(--bg),
\* var(--override, color-mix(...)) or color-mix(in srgb, var(--fg) pct%, var(--bg))
buildStyleBlock ==
    [i \in DOMAIN COLOR_GRAPH |->
        LET rule == COLOR_GRAPH[i] IN
        [name |-> rule.cssVar,
         expr |-> IF rule.source = "fg" THEN [kind |-> "var", ref |-> "fg"]
                  ELSE IF rule.source = "bg" THEN [kind |-> "var", ref |-> "bg"]
                  ELSE IF rule.override # "null"
                  THEN [kind |-> "varOr", ref |-> rule.override,
                        pct |-> MIX[rule.mixKey]]
                  ELSE [kind |-> "mix", pct |-> MIX[rule.mixKey]]]]

\* the custom properties the opening tag sets, by name
svgOpenTag(colors) ==
    [k \in {"bg", "fg"} \cup {e \in {"line", "accent", "muted", "surface", "border"} :
                                  Truthy(colors[e])} |-> colors[k]]

(***************************************************************************)
(* The browser: what a declaration of the style block denotes under the    *)
(* custom properties of the tag.  A colour is its four 8-bit channels;     *)
(* color-mix(in srgb) interpolates premultiplied by alpha (CSS Color 4,    *)
(* Interpolating with Alpha) and the result is taken to the nearest 8-bit  *)
(* value per channel.                                                      *)
(***************************************************************************)
cssColor(hex) ==
    LET c == parseHex(hex) IN [c EXCEPT !.a = IF c.a = -1 THEN 255 ELSE c.a]

\* x / y to the nearest integer, y > 0
RoundDiv(x, y) == (2 * x + y) \div (2 * y)

cssColorMix(fg, bg, pct) ==
    LET f == cssColor(fg)
        b == cssColor(bg)
        alpha == pct * f.a + (100 - pct) * b.a
        ch(fc, bc) == IF alpha = 0 THEN 0
                      ELSE RoundDiv(pct * f.a * fc + (100 - pct) * b.a * bc, alpha)
    IN  [r |-> ch(f.r, b.r), g |-> ch(f.g, b.g), b |-> ch(f.b, b.b),
         a |-> RoundDiv(alpha, 100)]

cssValue(expr, props) ==
    IF expr.kind = "var" THEN cssColor(props[expr.ref])
    ELSE IF expr.kind = "varOr" /\ expr.ref \in DOMAIN props
    THEN cssColor(props[expr.ref])
    ELSE cssColorMix(props["fg"], props["bg"], expr.pct)

(***************************************************************************)
(* A theme is resolved to literal colours and, when that succeeds, also    *)
(* rendered the CSS way (opening tag and style block)                      *)
(***************************************************************************)
Str3 == <<"#", "f", "f", "f">>

Str6 == <<"#", "2", "7", "2", "7", "2", "A">>

Str8 == <<"#", "1", "8", "1", "8", "1", "B", "8", "0">>

StrNamed == <<"r", "e", "d">>

StrShort == <<"#", "A", "B", "C", "D">>

StrNotHex == <<"#", "G", "G", "G">>

RequiredColours == {Str3, Str6, Str8, StrNamed, StrShort, <<>>}

OptionalColours == {Undefined, <<>>, Str6, StrNotHex}

DiagramColors ==
    [bg : RequiredColours, fg : RequiredColours,
     line : OptionalColours, accent : OptionalColours, muted : OptionalColours,
     surface : OptionalColours, border : OptionalColours]

InitTheme ==
    /\ fn = "theme"
    /\ pc = "call"
    /\ pin \in DiagramColors
    /\ pout = None
    /\ diagram = None
    /\ g = None
    /\ lay = None
    /\ res = None
    /\ err = ""

ResolveReturns ==
    /\ fn = "theme"
    /\ pc = "call"
    /\ "value" \in DOMAIN resolveColors(pin)
    /\ res' = resolveColors(pin).value
    /\ pc' = "resolved"
    /\ UNCHANGED <<fn, diagram, g, lay, err, pin, pout>>

ResolveThrows ==
    /\ fn = "theme"
    /\ pc = "call"
    /\ "threw" \in DOMAIN resolveColors(pin)
    /\ err' = resolveColors(pin).threw
    /\ pc' = "failed"
    /\ UNCHANGED <<fn, diagram, g, lay, res, pin, pout>>

RenderCss ==
    /\ fn = "theme"
    /\ pc = "resolved"
    /\ pout' = [tag |-> svgOpenTag(pin), style |-> buildStyleBlock]
    /\ pc' = "done"
    /\ UNCHANGED <<fn, diagram, g, lay, res, err, pin>>

NextTheme == ResolveReturns \/ ResolveThrows \/ RenderCss

SpecTheme == InitTheme /\ [][NextTheme]_vars

(***************************************************************************)
(* parseHex and toHex on their own: a string of up to MaxHexLen hex        *)
(* digits, bare or after one or two '#', is parsed and what was parsed is  *)
(* written back                                                            *)
(***************************************************************************)
MaxHexLen == 8

HexAlphabet == {"0", "f", "A"}

HexInputs ==
    UNION {{prefix \o digits : digits \in [1..n -> HexAlphabet],
                               prefix \in {<<>>, <<"#">>, <<"#", "#">>}} :
           n \in 0..MaxHexLen}

\* the channels of an RGBA in the hundredths toHex takes
inHundredths(rgba) ==
    LET x(v) == IF v = NaN THEN NaN ELSE 100 * v
    IN  [r |-> x(rgba.r), g |-> x(rgba.g), b |-> x(rgba.b),
         a |-> IF rgba.a = -1 THEN -1 ELSE x(rgba.a)]

InitHex ==
    /\ fn = "hex"
    /\ pc = "call"
    /\ pin \in HexInputs
    /\ pout = None
    /\ diagram = None
    /\ g = None
    /\ lay = None
    /\ res = None
    /\ err = ""

ParseHexReturns ==
    /\ fn = "hex"
    /\ pc = "call"
    /\ "threw" \notin DOMAIN parseHex(pin)
    /\ pout' = parseHex(pin)
    /\ pc' = "parsed"
    /\ UNCHANGED <<fn, diagram, g, lay, res, err, pin>>

ParseHexThrows ==
    /\ fn = "hex"
    /\ pc = "call"
    /\ "threw" \in DOMAIN parseHex(pin)
    /\ err' = parseHex(pin).threw
    /\ pc' = "failed"
    /\ UNCHANGED <<fn, diagram, g, lay, res, pin, pout>>

ToHexCall ==
    /\ fn = "hex"
    /\ pc = "parsed"
    /\ res' = toHex(inHundredths(pout))
    /\ pc' = "done"
    /\ UNCHANGED <<fn, diagram, g, lay, err, pin, pout>>

NextHex == ParseHexReturns \/ ParseHexThrows \/ ToHexCall

SpecHex == InitHex /\ [][NextHex]_vars

(***************************************************************************)
(* colorMix on its own, at every whole percentage                          *)
(***************************************************************************)
StrClear == <<"#", "F", "F", "0", "0", "0", "0", "0", "0">>

StrOpaque8 == <<"#", "0", "0", "0", "0", "3", "2", "f", "f">>

MixColours == {Str3, Str6, Str8, StrClear, StrOpaque8}

Percentages == 0..100

InitMix ==
    /\ fn = "mix"
    /\ pc = "call"
    /\ pin \in [fg : MixColours, bg : MixColours, pct : Percentages]
    /\ pout = None
    /\ diagram = None
    /\ g = None
    /\ lay = None
    /\ res = None
    /\ err = ""

MixCall ==
    /\ fn = "mix"
    /\ pc = "call"
    /\ \E down \in SUBSET {"r", "g", "b", "a"} :
          res' = colorMixFloat(pin.fg, pin.bg, pin.pct, down)
    /\ pc' = "done"
    /\ UNCHANGED <<fn, diagram, g, lay, err, pin, pout>>

NextMix == MixCall

SpecMix == InitMix /\ [][NextMix]_vars

(***************************************************************************)
(* generateMarkerId: pout is the local hex, res the string returned (empty *)
(* until then).  Math.random().toString(16)                                *)
(* .slice(2) is the hex digits of the fraction drawn: none when the draw   *)
(* is 0, here at most MaxDraw                                              *)
(***************************************************************************)
MaxMarkerLen == 4

MaxDraw == 2

MarkerLengths == -1..MaxMarkerLen

RandomDigits == UNION {[1..n -> {"0", "a"}] : n \in 0..MaxDraw}

InitMarker ==
    /\ fn = "marker"
    /\ pc = "call"
    /\ pin \in MarkerLengths
    /\ pout = <<>>
    /\ diagram = None
    /\ g = None
    /\ lay = None
    /\ res = <<>>
    /\ err = ""

MarkerThrows ==
    /\ fn = "marker"
    /\ pc = "call"
    /\ pin < 1
    /\ err' = "generateMarkerId: length must be >= 1"
    /\ pc' = "failed"
    /\ UNCHANGED <<fn, diagram, g, lay, res, pin, pout>>

MarkerEnter ==
    /\ fn = "marker"
    /\ pc = "call"
    /\ ~(pin < 1)
    /\ pout' = <<>>
    /\ pc' = "loop"
    /\ UNCHANGED <<fn, diagram, g, lay, res, err, pin>>

MarkerDraw ==
    /\ fn = "marker"
    /\ pc = "loop"
    /\ Len(pout) < pin
    /\ \E digits \in RandomDigits : pout' = pout \o digits
    /\ UNCHANGED <<fn, pc, diagram, g, lay, res, err, pin>>

\* the return with the whole of hex
MarkerReturn_whole ==
    /\ fn = "marker"
    /\ pc = "loop"
    /\ ~(Len(pout) < pin)
    /\ res' = <<"m">> \o pout
    /\ pc' = "done"
    /\ UNCHANGED <<fn, diagram, g, lay, err, pin, pout>>

MarkerReturn ==
    /\ fn = "marker"
    /\ pc = "loop"
    /\ ~(Len(pout) < pin)
    /\ res' = <<"m">> \o SubSeq(pout, 1, pin)
    /\ pc' = "done"
    /\ UNCHANGED <<fn, diagram, g, lay, err, pin, pout>>

NextMarker == MarkerThrows \/ MarkerEnter \/ MarkerDraw \/ MarkerReturn

\* A draw of 0 adds no digit and leaves the state as it is; a draw is 0 with
\* probability 2^-53 at most, so a draw that adds digits comes eventually.
SpecMarker == InitMarker /\ [][NextMarker]_vars /\ WF_vars(NextMarker)

(***************************************************************************)
(* ascii/display-width.ts drawTextWide: the canvas is an array of columns, *)
(* canvas[x][y], here CanvasWidth columns of CanvasHeight cells; a cell    *)
(* holds a code point.  pout is the canvas with the loop's offset and the  *)
(* index i of the next character.                                          *)
(***************************************************************************)
WIDE_CHAR_PAD == 8203

CanvasWidth == 3

CanvasHeight == 2

MaxDrawLen == 2

\* a canvas of full stops
FreshCanvas == [x \in 0..(CanvasWidth - 1) |-> [y \in 0..(CanvasHeight - 1) |-> 46]]

\* a, U+4E2D, U+1F600
DrawTexts == UNION {[1..n -> {97, 20013, 128512}] : n \in 0..MaxDrawLen}

InitDraw ==
    /\ fn = "draw"
    /\ pc = "call"
    /\ pin \in [x : -2..CanvasWidth, y : 0..(CanvasHeight - 1), text : DrawTexts]
    /\ pout = [canvas |-> FreshCanvas, offset |-> 0, i |-> 1]
    /\ diagram = None
    /\ g = None
    /\ lay = None
    /\ res = None
    /\ err = ""

DrawEnter ==
    /\ fn = "draw"
    /\ pc = "call"
    /\ pc' = "loop"
    /\ UNCHANGED <<fn, diagram, g, lay, res, err, pin, pout>>

\* canvas[col]![y] = ch
setCell(canvas, col, y, ch) == [canvas EXCEPT ![col][y] = ch]

\* the canvas after the first write of one pass of the loop
afterChar(canvas, col, y, ch) ==
    IF col >= 0 /\ col < CanvasWidth THEN setCell(canvas, col, y, ch) ELSE canvas

\* one pass of the loop that ends normally: the column of the pad, if there
\* is one and it is below the width, is a column of the canvas
DrawChar ==
    /\ fn = "draw"
    /\ pc = "loop"
    /\ pout.i <= Len(pin.text)
    /\ LET ch  == pin.text[pout.i]
           col == pin.x + pout.offset
       IN  /\ ~(isWideChar(ch) /\ col + 1 < 0)
           /\ pout' = IF isWideChar(ch)
                      THEN [canvas |-> IF col + 1 < CanvasWidth
                                       THEN setCell(afterChar(pout.canvas, col, pin.y, ch),
                                                    col + 1, pin.y, WIDE_CHAR_PAD)
                                       ELSE afterChar(pout.canvas, col, pin.y, ch),
                            offset |-> pout.offset + 2, i |-> pout.i + 1]
                      ELSE [canvas |-> afterChar(pout.canvas, col, pin.y, ch),
                            offset |-> pout.offset + 1, i |-> pout.i + 1]
    /\ UNCHANGED <<fn, pc, diagram, g, lay, res, err, pin>>

\* one pass of the loop that throws: the column of the pad is below 0, where
\* canvas[col] is undefined and the assignment to its cell a TypeError
DrawPadThrows ==
    /\ fn = "draw"
    /\ pc = "loop"
    /\ pout.i <= Len(pin.text)
    /\ isWideChar(pin.text[pout.i])
    /\ pin.x + pout.offset + 1 < 0
    /\ err' = "TypeError"
    /\ pc' = "failed"
    /\ UNCHANGED <<fn, diagram, g, lay, res, pin, pout>>

DrawReturn ==
    /\ fn = "draw"
    /\ pc = "loop"
    /\ pout.i > Len(pin.text)
    /\ pc' = "done"
    /\ UNCHANGED <<fn, diagram, g, lay, res, err, pin, pout>>

NextDraw == DrawEnter \/ DrawChar \/ DrawPadThrows \/ DrawReturn

SpecDraw == InitDraw /\ [][NextDraw]_vars

(***************************************************************************)
(* c4/parser.ts parseC4.  A line is what the tests of the loop see of it:  *)
(* its shape (which of the regular expressions it matches, or that it is   *)
(* '}'), its keyword, its first argument and the number of its arguments.  *)
(* The lines are trimmed by the caller.  A boundary is an object that the  *)
(* stack, the diagram and its parent share: heap holds the objects and a   *)
(* reference is an index of heap.  decl, the index of the line an object   *)
(* was made from, stands for its identity.  An optional field is <<>> when *)
(* absent and <<value>> when set.  pin is lines (pin[1] is lines[0]), pout *)
(* the locals of the call.                                                 *)
(***************************************************************************)
MaxLines == 4

DIAGRAM_TYPES == {"C4Context", "C4Container", "C4Component", "C4Dynamic", "C4Deployment"}

ELEMENT_SPECS ==
    [keyword \in {"Person", "Person_Ext", "System", "System_Ext",
                  "Container", "Container_Ext", "ContainerDb", "ContainerDb_Ext",
                  "ContainerQueue", "ContainerQueue_Ext",
                  "Component", "Component_Ext", "ComponentDb", "ComponentDb_Ext",
                  "ComponentQueue", "ComponentQueue_Ext"} |->
        CASE keyword \in {"Person", "Person_Ext"} ->
                 [kind |-> "Person", hasTechnology |-> FALSE]
          [] keyword \in {"System", "System_Ext"} ->
                 [kind |-> "System", hasTechnology |-> FALSE]
          [] keyword \in {"Container", "Container_Ext"} ->
                 [kind |-> "Container", hasTechnology |-> TRUE]
          [] keyword \in {"ContainerDb", "ContainerDb_Ext"} ->
                 [kind |-> "ContainerDb", hasTechnology |-> TRUE]
          [] keyword \in {"ContainerQueue", "ContainerQueue_Ext"} ->
                 [kind |-> "ContainerQueue", hasTechnology |-> TRUE]
          [] keyword \in {"Component", "Component_Ext"} ->
                 [kind |-> "Component", hasTechnology |-> TRUE]
          [] keyword \in {"ComponentDb", "ComponentDb_Ext"} ->
                 [kind |-> "ComponentDb", hasTechnology |-> TRUE]
          [] OTHER ->
                 [kind |-> "ComponentQueue", hasTechnology |-> TRUE]]

BOUNDARY_KINDS ==
    {"Boundary", "System_Boundary", "Container_Boundary", "Enterprise_Boundary",
     "Deployment_Node"}

REL_DIRECTIONS == {"Rel_D", "Rel_U", "Rel_L", "Rel_R", "Rel_Back"}

\* keyword.endsWith('_Ext'), over the keywords of ELEMENT_SPECS
endsWithExt(keyword) ==
    keyword \in {"Person_Ext", "System_Ext", "Container_Ext", "ContainerDb_Ext",
                 "ContainerQueue_Ext", "Component_Ext", "ComponentDb_Ext",
                 "ComponentQueue_Ext"}

\* title T / } / System_Boundary(b1, "B") { / Deployment_Node(b2, "B") { /
\* Node(n, "N") { / Person(a, "A") / Rel(a, a, "uses")
ParseLines ==
    { [shape |-> "title",  keyword |-> "title",           alias |-> "T",  nargs |-> 0],
      [shape |-> "close",  keyword |-> "",                alias |-> "",   nargs |-> 0],
      [shape |-> "braced", keyword |-> "System_Boundary", alias |-> "b1", nargs |-> 2],
      [shape |-> "braced", keyword |-> "Deployment_Node", alias |-> "b2", nargs |-> 2],
      [shape |-> "braced", keyword |-> "Node",            alias |-> "n",  nargs |-> 2],
      [shape |-> "call",   keyword |-> "Person",          alias |-> "a",  nargs |-> 2],
      [shape |-> "call",   keyword |-> "Rel",             alias |-> "a",  nargs |-> 3] }

\* the line C4Deployment
HeaderLine == [shape |-> "other", keyword |-> "C4Deployment", alias |-> "", nargs |-> 0]

\* no line at all, or the header and up to MaxLines lines after it
ParseInputs ==
    {<<>>} \cup
    UNION {{<<HeaderLine>> \o body : body \in [1..n -> ParseLines]} : n \in 0..MaxLines}

\* the alias of the boundary on top of the stack, if there is one
topAlias(boundaryStack, heap) ==
    IF Len(boundaryStack) > 0
    THEN <<heap[boundaryStack[Len(boundaryStack)]].alias>>
    ELSE <<>>

parseElement(keyword, spec, line, decl, boundaryStack, heap) ==
    [kind |-> spec.kind,
     alias |-> line.alias,
     external |-> endsWithExt(keyword),
     parentBoundary |-> topAlias(boundaryStack, heap),
     decl |-> decl]

\* <<>> is null
parseRelationship(keyword, line) ==
    IF keyword # "Rel" /\ keyword # "BiRel" /\ keyword \notin REL_DIRECTIONS THEN <<>>
    ELSE IF line.nargs < 3 THEN <<>>
    ELSE <<[from |-> line.alias, to |-> line.alias,
            direction |-> IF keyword \in REL_DIRECTIONS THEN <<keyword>> ELSE <<>>]>>

InitParse ==
    /\ fn = "parseC4"
    /\ pc = "call"
    /\ pin \in ParseInputs
    /\ pout = [i |-> 2,
               diagram |-> [type |-> "C4Context", title |-> <<>>, elements |-> <<>>,
                            relationships |-> <<>>, boundaries |-> <<>>],
               heap |-> <<>>,
               boundaryStack |-> <<>>]
    /\ diagram = None
    /\ g = None
    /\ lay = None
    /\ res = None
    /\ err = ""

\* the statements before the loop
ParseEnter ==
    /\ fn = "parseC4"
    /\ pc = "call"
    /\ LET firstLine == IF Len(pin) > 0 THEN pin[1].keyword ELSE ""
       IN  pout' = [pout EXCEPT !.diagram.type =
                        IF firstLine \in DIAGRAM_TYPES THEN firstLine ELSE "C4Context"]
    /\ pc' = "loop"
    /\ UNCHANGED <<fn, diagram, g, lay, res, err, pin>>

ParseTitle ==
    /\ fn = "parseC4"
    /\ pc = "loop"
    /\ pout.i <= Len(pin)
    /\ pin[pout.i].shape = "title"
    /\ pout' = [pout EXCEPT !.diagram.title = <<pin[pout.i].alias>>, !.i = @ + 1]
    /\ UNCHANGED <<fn, pc, diagram, g, lay, res, err, pin>>

\* boundaryStack.pop(), which leaves an empty array as it is
pop(boundaryStack) ==
    IF Len(boundaryStack) > 0
    THEN SubSeq(boundaryStack, 1, Len(boundaryStack) - 1)
    ELSE boundaryStack

ParseClose ==
    /\ fn = "parseC4"
    /\ pc = "loop"
    /\ pout.i <= Len(pin)
    /\ pin[pout.i].shape = "close"
    /\ pout' = [pout EXCEPT !.boundaryStack = pop(@), !.i = @ + 1]
    /\ UNCHANGED <<fn, pc, diagram, g, lay, res, err, pin>>

ParseBoundary ==
    /\ fn = "parseC4"
    /\ pc = "loop"
    /\ pout.i <= Len(pin)
    /\ pin[pout.i].shape = "braced"
    /\ pin[pout.i].keyword \in BOUNDARY_KINDS
    /\ LET line     == pin[pout.i]
           stack    == pout.boundaryStack
           boundary == [alias |-> line.alias,
                        kind |-> line.keyword,
                        elements |-> <<>>,
                        childBoundaries |-> <<>>,
                        parentBoundary |-> topAlias(stack, pout.heap),
                        decl |-> pout.i]
           ref      == Len(pout.heap) + 1
       IN  pout' = [i |-> pout.i + 1,
                    diagram |-> IF Len(stack) > 0 THEN pout.diagram
                                ELSE [pout.diagram EXCEPT !.boundaries = Append(@, ref)],
                    heap |-> Append(IF Len(stack) > 0
                                    THEN [pout.heap EXCEPT
                                              ![stack[Len(stack)]].childBoundaries =
                                                  Append(@, ref)]
                                    ELSE pout.heap,
                                    boundary),
                    boundaryStack |-> Append(stack, ref)]
    /\ UNCHANGED <<fn, pc, diagram, g, lay, res, err, pin>>

ParseElementLine ==
    /\ fn = "parseC4"
    /\ pc = "loop"
    /\ pout.i <= Len(pin)
    /\ pin[pout.i].shape = "call"
    /\ pin[pout.i].keyword \in DOMAIN ELEMENT_SPECS
    /\ LET line    == pin[pout.i]
           stack   == pout.boundaryStack
           element == parseElement(line.keyword, ELEMENT_SPECS[line.keyword], line,
                                   pout.i, stack, pout.heap)
       IN  pout' = [i |-> pout.i + 1,
                    diagram |-> [pout.diagram EXCEPT !.elements = Append(@, element)],
                    heap |-> IF Len(stack) > 0
                             THEN [pout.heap EXCEPT
                                       ![stack[Len(stack)]].elements = Append(@, element)]
                             ELSE pout.heap,
                    boundaryStack |-> stack]
    /\ UNCHANGED <<fn, pc, diagram, g, lay, res, err, pin>>

ParseRelationshipLine ==
    /\ fn = "parseC4"
    /\ pc = "loop"
    /\ pout.i <= Len(pin)
    /\ pin[pout.i].shape = "call"
    /\ pin[pout.i].keyword \notin DOMAIN ELEMENT_SPECS
    /\ parseRelationship(pin[pout.i].keyword, pin[pout.i]) # <<>>
    /\ pout' = [pout EXCEPT
                    !.diagram.relationships =
                        @ \o parseRelationship(pin[pout.i].keyword, pin[pout.i]),
                    !.i = @ + 1]
    /\ UNCHANGED <<fn, pc, diagram, g, lay, res, err, pin>>

\* a line that none of the branches takes: one that ends in '{' after a
\* keyword that is not of BOUNDARY_KINDS (it does not match the expression
\* of an element, which ends in ')'), a call that is neither an element nor
\* a relationship, or any other text
ParseSkip ==
    /\ fn = "parseC4"
    /\ pc = "loop"
    /\ pout.i <= Len(pin)
    /\ LET line == pin[pout.i]
       IN  /\ line.shape # "title"
           /\ line.shape # "close"
           /\ ~(line.shape = "braced" /\ line.keyword \in BOUNDARY_KINDS)
           /\ ~(line.shape = "call" /\ line.keyword \in DOMAIN ELEMENT_SPECS)
           /\ ~(line.shape = "call" /\ parseRelationship(line.keyword, line) # <<>>)
    /\ pout' = [pout EXCEPT !.i = @ + 1]
    /\ UNCHANGED <<fn, pc, diagram, g, lay, res, err, pin>>

ParseReturn ==
    /\ fn = "parseC4"
    /\ pc = "loop"
    /\ pout.i > Len(pin)
    /\ pc' = "done"
    /\ UNCHANGED <<fn, diagram, g, lay, res, err, pin, pout>>

NextParse ==
    \/ ParseEnter
    \/ ParseTitle
    \/ ParseClose
    \/ ParseBoundary
    \/ ParseElementLine
    \/ ParseRelationshipLine
    \/ ParseSkip
    \/ ParseReturn

SpecParse == InitParse /\ [][NextParse]_vars

(***************************************************************************)
(* Properties                                                              *)
(***************************************************************************)
C4Done == fn = "c4" /\ pc = "done"

AMDone == fn = "archimate" /\ pc = "done"

\* the input boundaries in the order flattenBoundaries lists the positioned ones
RECURSIVE flattenInput(_)
flattenInput(boundaries) ==
    IF boundaries = <<>> THEN <<>>
    ELSE <<Head(boundaries)>> \o flattenInput(Head(boundaries).childBoundaries)
           \o flattenInput(Tail(boundaries))

\* rectangle r lies inside rectangle b, at least l, t, r, b away from its edges
InsideBy(r, b, left, top, right, bottom) ==
    /\ r.x - b.x >= left
    /\ r.y - b.y >= top
    /\ (b.x + b.width) - (r.x + r.width) >= right
    /\ (b.y + b.height) - (r.y + r.height) >= bottom

\* the positioned member elements and child boundaries of the i-th boundary
MembersOf(i) ==
    {e \in Range(res.elements) : e.alias \in Range(flattenInput(diagram.boundaries)[i].elements)}
        \cup Range(flattenBoundaries(res.boundaries)[i].children)

\* C1: after layoutC4Diagram every boundary, at any depth, that wraps a
\* positioned element or a child boundary contains each of them with a margin of
\* at least 30 left, right and below and 58 above; after
\* layoutArchiMateDiagram every positioned element lies in the band of its own
\* layer with at least 20 left, right and below and 44 above.
C1_Containment ==
    /\ C4Done =>
         \A i \in 1..Len(flattenBoundaries(res.boundaries)) :
            \A r \in MembersOf(i) :
               InsideBy(r, flattenBoundaries(res.boundaries)[i],
                        Px(30), Px(58), Px(30), Px(30))
    /\ AMDone =>
         \A e \in Range(res.elements) :
            \E k \in 1..Len(res.layers) :
               /\ res.layers[k].name = e.layer
               /\ InsideBy(e, res.layers[k], Px(20), Px(44), Px(20), Px(20))

\* C1 witness: a finished C4 layout with a boundary that wraps both a
\* positioned element and a child boundary that wraps one itself
C1_Witness ==
    /\ C4Done
    /\ \E i \in 1..Len(flattenBoundaries(res.boundaries)) :
          /\ \E e \in Range(res.elements) : e \in MembersOf(i)
          /\ \E c \in Range(flattenBoundaries(res.boundaries)[i].children) :
                c \in MembersOf(i) /\ c.width > Px(C4_minBoxWidth)

\* rectangle r lies inside the canvas [0, width] x [0, height] of the result
InCanvas(r) ==
    /\ 0 <= r.x /\ r.x + r.width <= res.width
    /\ 0 <= r.y /\ r.y + r.height <= res.height

\* C2: in the result of layoutC4Diagram and of layoutArchiMateDiagram every
\* positioned element and every positioned group (C4 boundary at any depth,
\* ArchiMate layer band) lies inside the canvas [0, width] x [0, height].
C2_CanvasContainsAll ==
    /\ C4Done =>
         /\ \A e \in Range(res.elements) : InCanvas(e)
         /\ \A b \in Range(flattenBoundaries(res.boundaries)) : InCanvas(b)
    /\ AMDone =>
         /\ \A e \in Range(res.elements) : InCanvas(e)
         /\ \A l \in Range(res.layers) : InCanvas(l)

Count(seq, x) == Cardinality({i \in DOMAIN seq : seq[i] = x})

\* the relationships of the input that the result owes an entry: all of them
\* for C4, those between declared elements for ArchiMate
OwedC4 ==
    [i \in DOMAIN diagram.relationships |->
        [from |-> diagram.relationships[i].from, to |-> diagram.relationships[i].to,
         label |-> diagram.relationships[i].label,
         technology |-> diagram.relationships[i].technology]]

OwedAM ==
    SelectSeq(diagram.relationships,
              LAMBDA r : r.source \in Range(diagram.elements.order)
                           /\ r.target \in Range(diagram.elements.order))

ReturnedC4 ==
    [k \in DOMAIN res.relationships |->
        [from |-> res.relationships[k].from, to |-> res.relationships[k].to,
         label |-> res.relationships[k].label,
         technology |-> res.relationships[k].technology]]

ReturnedAM ==
    [k \in DOMAIN res.relationships |->
        [source |-> res.relationships[k].source, target |-> res.relationships[k].target,
         type |-> res.relationships[k].type, label |-> res.relationships[k].label]]

\* C3: the returned relationships hold exactly one routed entry for each
\* relationship of the input (C4) or for each input relationship between
\* declared elements (ArchiMate), each with that relationship's own endpoints
\* and label, also when several relationships connect the same ordered pair.
C3_OneEntryPerRelationship ==
    /\ (C4Done /\ Len(diagram.elements) > 0) =>
         /\ Len(res.relationships) = Len(diagram.relationships)
         /\ \A r \in Range(OwedC4) : Count(ReturnedC4, r) = Count(OwedC4, r)
    /\ (AMDone /\ Len(diagram.elements.order) > 0) =>
         /\ Len(res.relationships) = Len(OwedAM)
         /\ \A r \in Range(OwedAM) : Count(ReturnedAM, r) = Count(OwedAM, r)

Declared == Range(diagram.elements.order)

Dangling(r) == r.source \notin Declared \/ r.target \notin Declared

\* the diagram without its relationships to or from undeclared elements
WithoutDangling ==
    [diagram EXCEPT !.relationships = SelectSeq(@, LAMBDA r : ~Dangling(r))]

\* a graph with each relationship edge carrying its relationship in place of
\* the relationship's position in the input
Carrying(gr, d) ==
    [nodes |-> gr.nodes, label |-> gr.label, edges |-> gr.edges,
     elabel |-> [e \in DOMAIN gr.elabel |->
                    IF gr.elabel[e].layerEdge THEN gr.elabel[e]
                    ELSE [gr.elabel[e] EXCEPT !.index = d.relationships[@]]]]

\* C4: layoutArchiMateDiagram silently drops every relationship whose source
\* or target is not a key of diagram.elements: it is never handed to the layout
\* engine (the graph has the declared elements as its only nodes and is the
\* graph of the diagram without such relationships), it never appears in the
\* returned relationships, the call raises no error of its own, and the
\* returned elements, bands and other relationships are those of the diagram
\* without such relationships.
C4_DanglingDropped ==
    (fn = "archimate" /\ pc # "call" /\ Len(diagram.elements.order) > 0) =>
        /\ NodeSet(g) = Declared
        /\ \A e \in EdgeSet(g) : e[1] \in Declared /\ e[2] \in Declared
        /\ Carrying(g, diagram) = Carrying(buildGraphAM(WithoutDangling), WithoutDangling)
        /\ pc = "failed" => \E cause \in DagreCauses :
                               err = "Dagre layout failed (ArchiMate diagram): " \o cause
        /\ pc # "failed" => err = ""
        /\ pc = "done" =>
             /\ \A r \in Range(res.relationships) :
                   r.source \in Declared /\ r.target \in Declared
             /\ res = finishAM(WithoutDangling, buildGraphAM(WithoutDangling), lay)

\* C4 witness: a finished ArchiMate layout of a diagram with a relationship to
\* an undeclared element and one between declared elements, which is returned
C4_Witness ==
    /\ AMDone
    /\ \E r \in Range(diagram.relationships) : Dangling(r)
    /\ \E r \in Range(diagram.relationships) : ~Dangling(r)
    /\ Len(res.relationships) > 0

\* C5: layoutC4Diagram, given a relationship whose from or to is not the alias
\* of any element, fails with a layout error and returns no positioned
\* diagram: no result is returned for such a diagram, a relationship with an
\* undeclared endpoint never appears in a returned relationships list and no
\* node is positioned for an undeclared alias.
C5_UndeclaredEndpointFails ==
    (fn = "c4" /\ Len(diagram.elements) > 0
       /\ \E r \in Range(diagram.relationships) :
             \/ r.from \notin {e.alias : e \in Range(diagram.elements)}
             \/ r.to \notin {e.alias : e \in Range(diagram.elements)})
      => pc # "done"

LayoutDone == C4Done \/ AMDone

\* the edge of the graph the k-th returned relationship was drawn from
EdgeOf(k) == IF fn = "c4" THEN g.edges[k] ELSE realEdges(g)[k]

Orthogonal(points) ==
    \A i \in 1..(Len(points) - 1) :
        \/ points[i] = points[i + 1]
        \/ (points[i].x = points[i + 1].x) # (points[i].y = points[i + 1].y)

\* C6: in every relationship path returned by layoutC4Diagram and
\* layoutArchiMateDiagram every two consecutive points share exactly one
\* coordinate unless they are identical.
C6_PathsOrthogonal ==
    LayoutDone => \A r \in Range(res.relationships) : Orthogonal(r.points)

\* C6 witness: a returned path whose engine polyline had a slanted segment and
\* whose endpoints the clipping moved
C6_Witness ==
    /\ LayoutDone
    /\ \E k \in DOMAIN res.relationships :
          /\ ~Orthogonal(lay.points[EdgeOf(k)])
          /\ res.relationships[k].points # snapToOrthogonal(lay.points[EdgeOf(k)], TRUE)

\* the box the engine gave node v
EngineBox(v) ==
    Box(lay.x[v], lay.y[v], g.label[v].width \div 2, g.label[v].height \div 2)

\* endpoint out of a returned path, in before clipping, at node v
ClippedAt(out, in, v) ==
    IF g.label[v].has
    THEN (g.label[v].width > 0 /\ g.label[v].height > 0) =>
            /\ OnBoundary(out, EngineBox(v))
            /\ out # Point(lay.x[v], lay.y[v])
    ELSE out = in

AtMostOneInserted(in, out) ==
    \E f \in [1..Len(in) -> 1..Len(out)] :
        /\ f[1] = 1
        /\ f[Len(in)] = Len(out)
        /\ \A i \in 1..Len(in) : out[f[i]] = in[i]
        /\ \A i \in 1..(Len(in) - 1) : f[i] < f[i + 1] /\ f[i + 1] - f[i] <= 2

\* C8: snapToOrthogonal leaves the first and the last point of the path
\* unchanged, inserts at most one intermediate point per original segment, and
\* returns a path of 0 or 1 points unchanged.
C8_SnapFrame ==
    (fn = "snap" /\ pc = "done") =>
        IF Len(pin.points) < 2 THEN pout = pin.points
        ELSE /\ pout[1] = pin.points[1]
             /\ pout[Len(pout)] = pin.points[Len(pin.points)]
             /\ AtMostOneInserted(pin.points, pout)

\* C8 witness: a snapped path of three points with one slanted and one
\* straight segment, longer than before by exactly one point
C8_Witness ==
    /\ fn = "snap" /\ pc = "done"
    /\ Len(pin.points) = 3
    /\ Len(pout) = 4
    /\ Orthogonal(pout)

LayerIndex(layer) == CHOOSE i \in 1..Len(LAYER_ORDER) : LAYER_ORDER[i] = layer

\* C9: after layoutArchiMateDiagram, any positioned element a whose layer
\* comes before the layer of a positioned element b in the canonical order is
\* placed above b (a.y + a.height <= b.y), for any number of elements per
\* layer and any set of relationships.
C9_LayersStacked ==
    AMDone =>
        \A a, b \in Range(res.elements) :
            LayerIndex(a.layer) < LayerIndex(b.layer) => a.y + a.height <= b.y

\* the band of a layer sized on its own, from the returned elements
OwnLeft(layer) ==
    SetMin({e.x : e \in {el \in Range(res.elements) : el.layer = layer}}) - Px(20)

OwnRight(layer) ==
    SetMax({e.x + e.width : e \in {el \in Range(res.elements) : el.layer = layer}}) + Px(20)

PositionedLayerNames == {e.layer : e \in Range(res.elements)}

\* the bands share x and width, come in canonical order, one for each layer
\* with a positioned element
BandsAligned ==
    /\ \A i, j \in DOMAIN res.layers :
          /\ res.layers[i].x = res.layers[j].x
          /\ res.layers[i].width = res.layers[j].width
          /\ i < j => LayerIndex(res.layers[i].name) < LayerIndex(res.layers[j].name)
    /\ {res.layers[i].name : i \in DOMAIN res.layers} = PositionedLayerNames

\* C10 as claimed: after layoutArchiMateDiagram all returned bands have the
\* same x and the same width, the common width is the maximum of the widths
\* the bands had when sized individually, bands are in canonical layer order
\* and only for layers with at least one positioned element.
C10_WidthIsMaxOfOwnWidths ==
    AMDone =>
        /\ BandsAligned
        /\ \A i \in DOMAIN res.layers :
              res.layers[i].width =
                  SetMax({OwnRight(l) - OwnLeft(l) : l \in PositionedLayerNames})

\* C10 amended: after layoutArchiMateDiagram all returned bands have the same
\* x, the smallest left edge of the bands sized individually, and the same
\* width, the distance from that edge to the largest right edge of the bands
\* sized individually (at least the maximum of their widths); bands are in
\* canonical layer order and only for layers with at least one positioned
\* element.
C10_WidthIsSpanOfBands ==
    AMDone =>
        /\ BandsAligned
        /\ \A i \in DOMAIN res.layers :
              /\ res.layers[i].x = SetMin({OwnLeft(l) : l \in PositionedLayerNames})
              /\ res.layers[i].width =
                    SetMax({OwnRight(l) : l \in PositionedLayerNames})
                      - SetMin({OwnLeft(l) : l \in PositionedLayerNames})
              /\ res.layers[i].width >=
                    SetMax({OwnRight(l) - OwnLeft(l) : l \in PositionedLayerNames})

\* C10 witness: two bands whose own extents overlap without one holding the
\* other, made wider than either was on its own
C10_Witness ==
    /\ AMDone
    /\ Len(res.layers) = 2
    /\ OwnLeft(res.layers[1].name) < OwnLeft(res.layers[2].name)
    /\ OwnRight(res.layers[1].name) < OwnRight(res.layers[2].name)
    /\ res.layers[1].width > SetMax({OwnRight(l) - OwnLeft(l) : l \in PositionedLayerNames})

\* C11: no synthetic layer-ordering edge that layoutArchiMateDiagram adds
\* appears in the returned relationships: every returned relationship has the
\* source, target and type of an entry of diagram.relationships, and there are
\* as many returned relationships as edges of the graph that carry one.
C11_NoLayerEdgeReturned ==
    (AMDone /\ Len(diagram.elements.order) > 0) =>
        /\ \A r \in Range(res.relationships) :
              \E i \in DOMAIN diagram.relationships :
                 /\ diagram.relationships[i].source = r.source
                 /\ diagram.relationships[i].target = r.target
                 /\ diagram.relationships[i].type = r.type
        /\ Len(res.relationships)
              = Cardinality({e \in EdgeSet(g) : ~g.elabel[e].layerEdge})

\* C11 witness: a finished ArchiMate layout whose graph held an invisible
\* edge and an edge of a relationship, the latter returned
C11_Witness ==
    /\ AMDone
    /\ Len(diagram.elements.order) > 0
    /\ \E e \in EdgeSet(g) : g.elabel[e].layerEdge /\ e[1] # e[2]
    /\ Len(res.relationships) > 0

\* C12: layoutC4Diagram called with a diagram without elements, and
\* layoutArchiMateDiagram called with an empty element map, return without
\* raising a result with width 0, height 0 and empty element, relationship
\* and group lists, whatever relationships, boundaries or layers the input
\* carries; the layout engine is not called.
C12_EmptyDiagram ==
    /\ (fn = "c4" /\ Len(diagram.elements) = 0) =>
          /\ pc \in {"call", "done"}
          /\ err = ""
          /\ pc = "done" =>
                res = [width |-> 0, height |-> 0, elements |-> <<>>,
                       relationships |-> <<>>, boundaries |-> <<>>]
    /\ (fn = "archimate" /\ Len(diagram.elements.order) = 0) =>
          /\ pc \in {"call", "done"}
          /\ err = ""
          /\ pc = "done" =>
                res = [width |-> 0, height |-> 0, layers |-> <<>>,
                       elements |-> <<>>, relationships |-> <<>>]

\* C12 witness: layoutC4Diagram has returned for a diagram without elements
\* that carries relationships and a boundary
C12_Witness ==
    /\ C4Done
    /\ Len(diagram.elements) = 0
    /\ Len(diagram.relationships) > 0
    /\ Len(diagram.boundaries) > 0

\* C13: when the layout engine call fails, layoutC4Diagram and
\* layoutArchiMateDiagram fail with an error whose message is 'Dagre layout
\* failed (C4 diagram): ' respectively 'Dagre layout failed (ArchiMate
\* diagram): ' followed by the cause's message; no positioned diagram is
\* returned, and nothing more happens in the call: it is not retried.
C13_EngineFailureWrapped ==
    /\ [](pc = "failed" =>
            /\ err = (IF fn = "c4" THEN "Dagre layout failed (C4 diagram): "
                      ELSE "Dagre layout failed (ArchiMate diagram): ") \o lay.threw
            /\ res = None)
    /\ [][pc # "failed"]_vars

\* C13 witness: layoutArchiMateDiagram has failed on an engine failure
C13_Witness ==
    /\ fn = "archimate"
    /\ pc = "failed"
    /\ lay.threw = "Cannot read properties of undefined"

\* the estimated width of the widest text line of a C4 element: its label, its
\* technology in brackets, its description
WidestLine(e) ==
    Max(estimateTextWidth(e.label, 13, 500),
        Max(IF e.technology # <<>>
            THEN estimateTextWidth(<<91>> \o e.technology \o <<93>>, 10, 400) ELSE 0,
            IF e.description # <<>>
            THEN estimateTextWidth(e.description, 11, 400) ELSE 0))

TextLines(e) ==
    1 + (IF e.technology # <<>> THEN 1 ELSE 0) + (IF e.description # <<>> THEN 1 ELSE 0)

\* the element declared last under an alias
LastWithAlias(alias) ==
    diagram.elements[SetMax({i \in DOMAIN diagram.elements :
                                 diagram.elements[i].alias = alias})]

C4GraphBuilt == fn = "c4" /\ pc # "call" /\ Len(diagram.elements) > 0

\* C15 as claimed: for every C4 element of every kind, the box size
\* layoutC4Diagram registers with the layout engine is width = max(160, widest
\* text line + 32) and height = max(80, text lines x 18 + 24), so the box is
\* never narrower than its widest text line plus the horizontal padding.
C15_EveryKindSizedByText ==
    C4GraphBuilt =>
        \A e \in Range(diagram.elements) :
            /\ g.label[e.alias].width = Max(Px(160), WidestLine(e) + Px(32))
            /\ g.label[e.alias].height = Max(Px(80), TextLines(e) * Px(18) + Px(24))
            /\ g.label[e.alias].width >= WidestLine(e) + Px(32)

\* C15 amended: the box size layoutC4Diagram registers with the layout engine
\* for an alias is that of the element declared last under the alias: 160 x
\* 180 when it is a Person, whatever its texts, and for every other kind width
\* = max(160, widest text line + 32) and height = max(80, text lines x 18 +
\* 24), so that the box of an element that is not a Person is never narrower
\* than its widest text line plus the horizontal padding.
C15_SizedByKindAndText ==
    C4GraphBuilt =>
        \A e \in Range(diagram.elements) :
            IF LastWithAlias(e.alias).kind = "Person"
            THEN /\ g.label[e.alias].width = Px(160)
                 /\ g.label[e.alias].height = Px(180)
            ELSE /\ g.label[e.alias].width
                       = Max(Px(160), WidestLine(LastWithAlias(e.alias)) + Px(32))
                 /\ g.label[e.alias].height
                       = Max(Px(80), TextLines(LastWithAlias(e.alias)) * Px(18) + Px(24))
                 /\ g.label[e.alias].width
                       >= WidestLine(LastWithAlias(e.alias)) + Px(32)

\* C15 witness: a graph with the box of a Person whose label is wider than the
\* box and the box of a System widened by its texts beyond the minimum
C15_Witness ==
    /\ C4GraphBuilt
    /\ \E e \in Range(diagram.elements) :
          /\ e.kind = "Person"
          /\ WidestLine(e) > g.label[e.alias].width
    /\ \E e \in Range(diagram.elements) :
          /\ e.kind = "System"
          /\ g.label[e.alias].width > Px(160)

TextDone == fn = "text" /\ pc = "done"

\* C16: estimateTextWidth returns 0 for the empty text and never a negative
\* number; measuring the text with one more character at the same size and
\* weight never gives less, and measuring the same text at the same size and a
\* heavier weight never gives less (0.52 below 500, 0.55 from 500, 0.58 from
\* 600 per column).
C16_EstimateMonotone ==
    /\ [](TextDone => /\ pout.width >= 0
                      /\ (pin.text = <<>> => pout.width = 0)
                      /\ pout.width * 100
                           = pout.columns * pin.fontSize * Px(1)
                               * (IF pin.fontWeight < 500 THEN 52
                                  ELSE IF pin.fontWeight < 600 THEN 55 ELSE 58))
    /\ [][(TextDone /\ Len(pin'.text) = Len(pin.text) + 1
             /\ pin'.fontSize = pin.fontSize /\ pin'.fontWeight = pin.fontWeight)
            => pout'.width >= pout.width]_vars
    /\ [][(TextDone /\ pin'.text = pin.text /\ pin'.fontSize = pin.fontSize
             /\ pin'.fontWeight > pin.fontWeight)
            => pout'.width >= pout.width]_vars

\* C16 witness: a text measured at weight 600 after having been measured at a
\* lighter weight, its width above that of the 0.52 ratio
C16_Witness ==
    /\ TextDone
    /\ pin.fontWeight = 600
    /\ Len(pin.text) = MaxText
    /\ pout.width * 100 > pout.columns * pin.fontSize * Px(1) * 52

\* C17 as claimed: the column count estimateTextWidth uses counts every CJK,
\* Hangul and fullwidth character and every emoji as 2 columns and every other
\* character as 1, for every string, characters outside the Basic Multilingual
\* Plane included.
C17_WideCountsTwo ==
    TextDone => pout.columns = displayWidth(pin.text)

ThemeResolved == fn = "theme" /\ pc \in {"resolved", "done"}

\* an optional colour is provided when it is a non-empty string
Provided(value) == value # Undefined /\ value # <<>>

ValidHex(value) ==
    /\ Len(value) \in {4, 7, 9}
    /\ Head(value) = "#"
    /\ Range(Tail(value)) \subseteq
           {"0", "1", "2", "3", "4", "5", "6", "7", "8", "9",
            "a", "b", "c", "d", "e", "f", "A", "B", "C", "D", "E", "F"}

InvalidInput ==
    \/ ~ValidHex(pin.bg)
    \/ ~ValidHex(pin.fg)
    \/ \E k \in {"line", "accent", "muted", "surface", "border"} :
          Provided(pin[k]) /\ ~ValidHex(pin[k])

\* C19: resolveColors throws an 'Invalid color' error and returns no palette
\* whenever bg, fg or a provided (non-empty) enrichment colour is not a #RGB,
\* #RRGGBB or #RRGGBBAA string, and only then; whenever it returns, every one
\* of the 13 values is a valid hex colour string.
C19_InvalidColourThrows ==
    /\ []((fn = "theme" /\ InvalidInput) => (pc \in {"call", "failed"} /\ res = None))
    /\ [][(fn = "theme" /\ pc = "call" /\ InvalidInput) =>
             (pc' = "failed" /\ err' \in {"Invalid color for '" \o k \o "'" :
                  k \in {"bg", "fg", "line", "accent", "muted", "surface", "border"}})]_vars
    /\ []((fn = "theme" /\ pc = "failed") => InvalidInput)
    /\ [](ThemeResolved =>
             (Cardinality(DOMAIN res) = 13 /\ \A k \in DOMAIN res : ValidHex(res[k])))

\* C19 witness: valid bg and fg, an invalid border, and the error names border
C19_Witness ==
    /\ fn = "theme"
    /\ pc = "failed"
    /\ ValidHex(pin.bg) /\ ValidHex(pin.fg)
    /\ \A k \in {"line", "accent", "muted", "surface"} : ~Provided(pin[k])
    /\ pin.border = StrNotHex
    /\ err = "Invalid color for 'border'"

\* two colours agree up to one unit of each 8-bit channel
Near(c, d) ==
    /\ c.r - d.r \in -1..1
    /\ c.g - d.g \in -1..1
    /\ c.b - d.b \in -1..1
    /\ c.a - d.a \in -1..1

\* C20 as claimed: for every COLOR_GRAPH rule and every DiagramColors of valid
\* hex colours, the value resolveColors computes for the rule's variable is the
\* value (up to the rounding of a channel) the declaration of buildStyleBlock
\* for that variable denotes under the custom properties svgOpenTag sets:
\* var(--fg), var(--bg), the override variable when set and otherwise the
\* color-mix of fg into bg at the rule's MIX percentage.
C20_StaticMatchesCss ==
    (fn = "theme" /\ pc = "done") =>
        \A i \in DOMAIN pout.style :
            Near(cssColor(res[pout.style[i].name]),
                 cssValue(pout.style[i].expr, pout.tag))

LowerHexDigits ==
    {"0", "1", "2", "3", "4", "5", "6", "7", "8", "9", "a", "b", "c", "d", "e", "f"}

\* a lowercase #rrggbb or #rrggbbaa string
LowerHexColour(h) ==
    /\ Len(h) \in {7, 9}
    /\ Head(h) = "#"
    /\ Range(Tail(h)) \subseteq LowerHexDigits

HexDone == fn = "hex" /\ pc = "done"

\* C21 as claimed: toHex(parseHex(h)) = h for every lowercase 6-digit hex
\* colour #rrggbb and for every lowercase 8-digit hex colour #rrggbbaa.
C21_RoundTrip ==
    (HexDone /\ LowerHexColour(pin)) => res = pin

\* C21 amended: toHex(parseHex(h)) = h for every lowercase 6-digit hex colour
\* #rrggbb and for every lowercase 8-digit hex colour #rrggbbaa whose alpha is
\* not ff; for #rrggbbff it is the opaque 6-digit form #rrggbb.
C21_RoundTripButOpaque ==
    (HexDone /\ LowerHexColour(pin)) =>
        IF Len(pin) = 9 /\ pin[8] = "f" /\ pin[9] = "f"
        THEN res = SubSeq(pin, 1, 7)
        ELSE res = pin

\* C21 witness: a translucent 8-digit colour written back as it was read
C21_Witness ==
    /\ HexDone
    /\ LowerHexColour(pin)
    /\ Len(pin) = 9
    /\ pin[8] = "0" /\ pin[9] = "f"
    /\ res = pin

\* the value of a hex digit
DigitValue(ch) ==
    CASE ch = "0" -> 0 [] ch = "1" -> 1 [] ch = "2" -> 2 [] ch = "3" -> 3
      [] ch = "4" -> 4 [] ch = "5" -> 5 [] ch = "6" -> 6 [] ch = "7" -> 7
      [] ch = "8" -> 8 [] ch = "9" -> 9
      [] ch \in {"a", "A"} -> 10 [] ch \in {"b", "B"} -> 11
      [] ch \in {"c", "C"} -> 12 [] ch \in {"d", "D"} -> 13
      [] ch \in {"e", "E"} -> 14 [] ch \in {"f", "F"} -> 15

AllHexDigits(d) ==
    Range(d) \subseteq LowerHexDigits \cup {"A", "B", "C", "D", "E", "F"}

\* the input without one leading '#'
DigitString(h) == IF h # <<>> /\ h[1] = "#" THEN Tail(h) ELSE h

\* C22: parseHex throws an 'Invalid hex color' error for every input whose
\* digit string (after removing one leading '#') has a length other than 3, 6
\* or 8, the empty string and '#' included; for 3 digits it doubles each
\* digit, for 6 digits it returns r, g, b without alpha, and for 8 digits it
\* also returns alpha, every channel being an integer in 0..255 (the digits
\* being hex digits).
C22_ParseHexByLength ==
    (fn = "hex" /\ pc # "call") =>
        LET d == DigitString(pin)
            two(i) == 16 * DigitValue(d[i]) + DigitValue(d[i + 1])
        IN  /\ Len(d) \notin {3, 6, 8} =>
                (pc = "failed" /\ err = "Invalid hex color" /\ pout = None)
            /\ Len(d) \in {3, 6, 8} => (pc \in {"parsed", "done"} /\ err = "")
            /\ (Len(d) \in {3, 6, 8} /\ AllHexDigits(d)) =>
                {pout.r, pout.g, pout.b} \subseteq 0..255
            /\ (Len(d) = 3 /\ AllHexDigits(d)) =>
                (/\ pout.r = 17 * DigitValue(d[1])
                 /\ pout.g = 17 * DigitValue(d[2])
                 /\ pout.b = 17 * DigitValue(d[3])
                 /\ pout.a = -1)
            /\ (Len(d) = 6 /\ AllHexDigits(d)) =>
                (pout.r = two(1) /\ pout.g = two(3) /\ pout.b = two(5) /\ pout.a = -1)
            /\ (Len(d) = 8 /\ AllHexDigits(d)) =>
                (/\ pout.r = two(1) /\ pout.g = two(3) /\ pout.b = two(5)
                 /\ pout.a = two(7) /\ pout.a \in 0..255)

\* C22 witness: three digits after a '#', doubled
C22_Witness ==
    /\ fn = "hex"
    /\ pc = "parsed"
    /\ pin = <<"#", "f", "A", "0">>
    /\ pout = [r |-> 255, g |-> 170, b |-> 0, a |-> -1]

\* the four channels of a valid hex colour string, a missing alpha being 255
ColourOf(h) ==
    LET d == IF Len(h) = 4 THEN <<h[2], h[2], h[3], h[3], h[4], h[4]>> ELSE Tail(h)
        two(i) == 16 * DigitValue(d[i]) + DigitValue(d[i + 1])
    IN  [r |-> two(1), g |-> two(3), b |-> two(5),
         a |-> IF Len(d) = 8 THEN two(7) ELSE 255]

\* v is b + pct/100 * (f - b) to the nearest integer, and between b and f
Interpolated(v, b, f, pct) ==
    /\ 100 * v - (100 * b + pct * (f - b)) \in -50..50
    /\ v >= Min(b, f)
    /\ v <= Max(b, f)

\* C23: colorMix(fg, bg, pct) returns the colour of bg at pct = 0 and the
\* colour of fg at pct = 100, and for every pct in 0..100 each channel of the
\* result is the linear interpolation bg + pct/100 * (fg - bg) rounded to the
\* nearest integer and so lies between the corresponding channels of bg and
\* fg; the result has an alpha channel only if at least one input has one, a
\* missing alpha counting as 255.
C23_ColorMixInterpolates ==
    (fn = "mix" /\ pc = "done") =>
        LET f == ColourOf(pin.fg)
            b == ColourOf(pin.bg)
            m == ColourOf(res)
        IN  /\ pin.pct = 0 => m = b
            /\ pin.pct = 100 => m = f
            /\ Interpolated(m.r, b.r, f.r, pin.pct)
            /\ Interpolated(m.g, b.g, f.g, pin.pct)
            /\ Interpolated(m.b, b.b, f.b, pin.pct)
            /\ Interpolated(m.a, b.a, f.a, pin.pct)
            /\ Len(res) \in {7, 9}
            /\ Len(res) = 9 => (Len(pin.fg) = 9 \/ Len(pin.bg) = 9)

\* C23 witness: an opaque colour mixed at 29% into one with alpha, the result
\* with an alpha channel and strictly between the two in red
C23_Witness ==
    /\ fn = "mix"
    /\ pc = "done"
    /\ pin.fg = Str3
    /\ pin.bg = Str8
    /\ pin.pct = 29
    /\ Len(res) = 9
    /\ ColourOf(res).r > ColourOf(pin.bg).r
    /\ ColourOf(res).r < ColourOf(pin.fg).r

\* C24: generateMarkerId(length) throws 'length must be >= 1' for every length
\* below 1 and, for every integer length >= 1, terminates and returns 'm'
\* followed by exactly length lowercase hex digits, drawing again whenever the
\* digits drawn so far are fewer than length.
C24_MarkerId ==
    /\ []((fn = "marker" /\ pin < 1) =>
            (/\ pc \in {"call", "failed"}
             /\ (pc = "failed" => err = "generateMarkerId: length must be >= 1")))
    /\ []((fn = "marker" /\ pin >= 1) => pc # "failed")
    /\ []((fn = "marker" /\ pc = "done") =>
            (/\ Len(res) = pin + 1
             /\ Head(res) = "m"
             /\ Range(Tail(res)) \subseteq LowerHexDigits))
    /\ [][(fn = "marker" /\ pc = "loop" /\ Len(pout) < pin) => pc' = "loop"]_vars
    /\ (fn = "marker" /\ pin < 1) ~> (pc = "failed")
    /\ (fn = "marker" /\ pin >= 1) ~> (pc = "done")

\* C24 witness: more digits asked for than one draw gives, and more drawn in
\* the end than asked for
C24_Witness ==
    /\ fn = "marker"
    /\ pc = "done"
    /\ pin > MaxDraw
    /\ Len(pout) > pin
    /\ Len(res) = pin + 1

\* the columns the characters before the k-th take
ColumnsBefore(text, k) == displayWidth(SubSeq(text, 1, k - 1))

\* what the claim has in the cell of column col and row y after the call
ExpectedCell(col, y) ==
    IF y # pin.y THEN 46
    ELSE IF \E k \in DOMAIN pin.text : pin.x + ColumnsBefore(pin.text, k) = col
    THEN pin.text[CHOOSE k \in DOMAIN pin.text :
                      pin.x + ColumnsBefore(pin.text, k) = col]
    ELSE IF \E k \in DOMAIN pin.text :
               /\ isWideChar(pin.text[k])
               /\ pin.x + ColumnsBefore(pin.text, k) + 1 = col
    THEN WIDE_CHAR_PAD
    ELSE 46

\* C25 as claimed: drawTextWide(canvas, x, y, text) writes the characters of
\* text left to right starting at column x of row y, a narrow character
\* taking one column and a wide character two, the second holding
\* WIDE_CHAR_PAD; the text thus occupies exactly displayWidth(text) columns
\* and every other cell of the canvas is left unchanged.
C25_TextDrawn ==
    fn = "draw" =>
        /\ pc # "failed"
        /\ pc = "done" =>
              \A col \in 0..(CanvasWidth - 1), y \in 0..(CanvasHeight - 1) :
                  pout.canvas[col][y] = ExpectedCell(col, y)

(***************************************************************************)
(* parseC4 against the braces of the text                                  *)
(***************************************************************************)
RECURSIVE OpenBraces(_, _)
\* the lines whose '{' is not yet matched by a '}' before line k of the
\* text, outermost first: a line that ends in '{' opens, a '}' closes the
\* last one open, and lines[0] is the diagram type
OpenBraces(lines, k) ==
    IF k <= 2 THEN <<>>
    ELSE LET before == OpenBraces(lines, k - 1)
         IN  IF lines[k - 1].shape = "braced" THEN Append(before, k - 1)
             ELSE IF lines[k - 1].shape = "close" /\ Len(before) > 0
             THEN SubSeq(before, 1, Len(before) - 1)
             ELSE before

IsBoundaryLine(l) == l.shape = "braced" /\ l.keyword \in BOUNDARY_KINDS

IsElementLine(l) == l.shape = "call" /\ l.keyword \in DOMAIN ELEMENT_SPECS

\* the line of the innermost boundary whose braces enclose line k (a
\* boundary still open at the end of the text encloses what follows its
\* opening line), 0 if there is none
EnclosingBoundary(lines, k) ==
    LET open == SelectSeq(OpenBraces(lines, k), LAMBDA j : IsBoundaryLine(lines[j]))
    IN  IF Len(open) = 0 THEN 0 ELSE open[Len(open)]

\* how many members of the list were made from line k
Occurrences(list, k) == Cardinality({n \in DOMAIN list : list[n].decl = k})

\* how many times the list of references holds the boundary made from line k
RefOccurrences(refs, heap, k) ==
    Cardinality({n \in DOMAIN refs : heap[refs[n]].decl = k})

ParseDone == fn = "parseC4" /\ pc = "done"

\* C26 as claimed: after parseC4 the boundaries form a forest that mirrors
\* the brace nesting of the text (a boundary is a child of the innermost
\* boundary whose braces enclose its opening line, or a top-level boundary
\* of the diagram if there is none); every parsed element is in
\* diagram.elements exactly once and in the elements list of at most one
\* boundary, the innermost boundary whose braces enclose its declaration,
\* whose alias is its parentBoundary; an element outside all boundary
\* braces is in no boundary.
C26_MirrorsBraceNesting ==
    ParseDone =>
        LET d    == pout.diagram
            heap == pout.heap
        IN  /\ \A k \in 2..Len(pin) :
                   IsBoundaryLine(pin[k]) =>
                       LET e == EnclosingBoundary(pin, k)
                       IN  /\ Cardinality({r \in DOMAIN heap : heap[r].decl = k}) = 1
                           /\ RefOccurrences(d.boundaries, heap, k)
                                  = IF e = 0 THEN 1 ELSE 0
                           /\ \A r \in DOMAIN heap :
                                  RefOccurrences(heap[r].childBoundaries, heap, k)
                                      = IF heap[r].decl = e THEN 1 ELSE 0
            /\ \A k \in 2..Len(pin) :
                   IsElementLine(pin[k]) =>
                       LET e == EnclosingBoundary(pin, k)
                       IN  /\ Occurrences(d.elements, k) = 1
                           /\ \A r \in DOMAIN heap :
                                  Occurrences(heap[r].elements, k)
                                      = IF heap[r].decl = e THEN 1 ELSE 0
                           /\ \A n \in DOMAIN d.elements :
                                  d.elements[n].decl = k =>
                                      d.elements[n].parentBoundary
                                          = IF e = 0 THEN <<>> ELSE <<pin[e].alias>>

====
